---- MODULE Spec2Model ----
(***************************************************************************)
(* Content-safety pipeline of the chatbot backend: PromptFilterService     *)
(* (regex rules + moderation), PIIHandler (detection + masking) and        *)
(* ChatService.process_message, which sequences them around the AI call.   *)
(*                                                                         *)
(* Texts are sequences of one-character strings.  A compiled regex is      *)
(* modelled by the literal token it matches: pattern.search is substring   *)
(* occurrence, pattern.sub is Python's single left-to-right pass over the  *)
(* non-overlapping matches.  Optional values are sequences of length <= 1: *)
(* None is << >> and a present value v is << v >>.                         *)
(***************************************************************************)
EXTENDS Integers, Sequences, FiniteSets, TLC

VARIABLES
    settings,           \* PromptFilterService.settings (application Settings)
    filter_config,      \* PromptFilterService.filter_config
    compiled_patterns,  \* PromptFilterService.compiled_patterns
    fcall,              \* observation of the last filter_prompt call
    config_file,        \* the file at PROMPT_FILTER_CONFIG_PATH
    rcall,              \* observation of the last reload_config call
    messages,           \* rows of the messages table of the conversation
    conversations,      \* number of rows of the conversations table
    pcall,              \* observation of the last process_message call
    ncalls,             \* number of process_message calls made
    http,               \* the response of POST /chat to the last request
    ai_settings,        \* AIService.fallback_enabled and the state of the cache store
    cache,              \* the Redis cache of AI responses, by cache key
    cache_log,          \* the writes the cache store performed, in order
    callers,            \* the requests in their AI phase, one coroutine each
    dcall,              \* observation of a PIIDetector.detect call (AI service)
    mcall,              \* observation of a DataMasker.mask_text call (AI service)
    vcall,              \* observation of a detect, mask_text, validate_pii_removal run
    hcall,              \* observation of a PIIHandler.process_text call (AI service)
    bcall,              \* observation of a DataMasker.mask_text call (backend)
    rl_settings,        \* RATE_LIMIT_CALLS and RATE_LIMIT_WINDOW of the AI service
    redis_time,         \* the clock of the rate limiter's Redis, in seconds
    ratelimit,          \* the sorted set ratelimit:<client> of each client
    dispatched          \* the requests the middleware handled, in order

vars == <<settings, filter_config, compiled_patterns, fcall, config_file, rcall, messages, conversations, pcall, ncalls, http, ai_settings, cache, cache_log, callers, dcall, mcall, vcall, hcall, bcall, rl_settings, redis_time, ratelimit, dispatched>>

pii_vars == <<dcall, mcall, vcall, hcall, bcall>>

rate_vars == <<rl_settings, redis_time, ratelimit, dispatched>>

(***************************************************************************)
(* Bounds of the model.                                                    *)
(***************************************************************************)
MaxLen == 3
MaxRules == 2
MaxCalls == 2

None == << >>
Some(v) == << v >>
\* Python truthiness of an Optional[str]: neither None nor empty
TruthyText(opt) == opt # None /\ opt[1] # << >>
TruthyStr(opt) == opt # None /\ opt[1] # ""

(***************************************************************************)
(* Texts and regular expressions.                                          *)
(***************************************************************************)
Alphabet == {"a", "b"}

Contents == UNION { [1..n -> Alphabet] : n \in 0..MaxLen }

\* pattern.search(content): the token occurs somewhere in the text
re_search(tok, s) ==
    \E i \in 1..(Len(s) - Len(tok) + 1) : SubSeq(s, i, i + Len(tok) - 1) = tok

\* variant: only the first match is replaced (count = 1)
re_sub_first_match(tok, repl, s) ==
    IF \E i \in 1..(Len(s) - Len(tok) + 1) : SubSeq(s, i, i + Len(tok) - 1) = tok
    THEN LET i == CHOOSE k \in 1..(Len(s) - Len(tok) + 1) :
                    /\ SubSeq(s, k, k + Len(tok) - 1) = tok
                    /\ \A j \in 1..(k - 1) : SubSeq(s, j, j + Len(tok) - 1) # tok
         IN SubSeq(s, 1, i - 1) \o repl \o SubSeq(s, i + Len(tok), Len(s))
    ELSE s

\* pattern.sub(replacement, text): leftmost non-overlapping matches, one pass
RECURSIVE re_sub(_, _, _)
re_sub(tok, repl, s) ==
    IF Len(s) < Len(tok) THEN s
    ELSE IF SubSeq(s, 1, Len(tok)) = tok
         THEN repl \o re_sub(tok, repl, SubSeq(s, Len(tok) + 1, Len(s)))
         ELSE << s[1] >> \o re_sub(tok, repl, Tail(s))

(***************************************************************************)
(* FilterAction, RegexFilter, FilterConfig, FilterResult.                  *)
(***************************************************************************)
BLOCK == "block"
SANITIZE == "sanitize"
ALLOW == "allow"

\* a replacement template that re rejects when the substitution is applied
BadTemplate == << "<bad group reference>" >>

\* a pattern that re.compile rejects
BadPattern == << "<unbalanced parenthesis>" >>

DefaultReplacement == << "*", "*", "*" >>

RegexFilter(pattern, action, message, replacement) ==
    [pattern |-> pattern, action |-> action, message |-> message,
     replacement |-> replacement]

\* The rules a configuration file may hold.  A rule's name is its key in
\* the file; here it is the rule's position ("r1", "r2", ...).
RuleUniverse ==
    { RegexFilter(<< "a", "b" >>, BLOCK, "blocked: ab", None),
      RegexFilter(<< "b" >>, BLOCK, "", None),
      RegexFilter(<< "a" >>, SANITIZE, "masked: a", None),
      RegexFilter(<< "b" >>, SANITIZE, "b became a", Some(<< "a" >>)),
      RegexFilter(<< "a" >>, SANITIZE, "a doubled", Some(<< "a", "a" >>)),
      RegexFilter(<< "a", "b" >>, SANITIZE, "bad template", Some(BadTemplate)),
      RegexFilter(BadPattern, BLOCK, "never compiled", None) }

RuleNames == << "r1", "r2", "r3", "r4" >>

RuleName(i) == RuleNames[i]

RuleLists == UNION { [1..n -> RuleUniverse] : n \in 0..MaxRules }

\* settings["max_message_length"] of the file: absent (None), an integer, or
\* a JSON value of another type, which the comparison with len() rejects
IntValue(n) == [type |-> "int", value |-> n]
StrValue == [type |-> "str", value |-> 0]
DefaultMaxMessageLength == 4096

FilterConfig(rules, maxlen) ==
    [regex_filters |-> rules, settings |-> [max_message_length |-> maxlen]]

\* FilterConfig(regex_filters=[], settings={}): what _load_filter_config
\* returns when the file is missing or invalid
EmptyConfig == FilterConfig(<< >>, None)

\* the configurations a file can hold: the longest contents exceed the limit
Configs ==
    { FilterConfig(rules, Some(IntValue(MaxLen - 1))) : rules \in RuleLists }
    \cup { FilterConfig(<< >>, Some(StrValue)), EmptyConfig }

FilterResult(allowed, action, filtered, message, triggered, flagged, cats) ==
    [is_allowed |-> allowed, action |-> action, filtered_content |-> filtered,
     message |-> message, triggered_filters |-> triggered,
     moderation_flagged |-> flagged, moderation_categories |-> cats]

MsgTooLong == "Your message is too long."
MsgModeration == "Your input was flagged as inappropriate by our moderation system."
MsgFilterError == "An error occurred while checking your input. Please try again."


(***************************************************************************)
(* PromptFilterService._compile_regex_patterns: a dict keyed by rule name, *)
(* in insertion order; a later rule of the same name replaces the value    *)
(* and keeps the first position.                                           *)
(***************************************************************************)
Compiled(name, rule) == [name |-> name, pattern |-> rule.pattern, rule |-> rule]

RECURSIVE dict_put(_, _)
dict_put(d, entry) ==
    IF d = << >> THEN << entry >>
    ELSE IF d[1].name = entry.name THEN << entry >> \o Tail(d)
         ELSE << d[1] >> \o dict_put(Tail(d), entry)

RECURSIVE compile_from(_, _, _)
compile_from(rules, i, compiled) ==
    IF i > Len(rules) THEN compiled
    ELSE IF rules[i].pattern = BadPattern
         THEN compile_from(rules, i + 1, compiled)
         ELSE compile_from(rules, i + 1,
                           dict_put(compiled, Compiled(RuleName(i), rules[i])))

compile_regex_patterns(config) == compile_from(config.regex_filters, 1, << >>)

(***************************************************************************)
(* PromptFilterService._apply_regex_filters.                               *)
(***************************************************************************)
NoResult == FilterResult(FALSE, ALLOW, None, None, << >>, FALSE, << >>)

\* variant: the block result carries no message
regex_block_result_without_message(rule, triggered_filters) ==
    [is_allowed |-> FALSE, action |-> "block", filtered_content |-> << >>,
     message |-> << >>, triggered_filters |-> triggered_filters,
     moderation_flagged |-> FALSE, moderation_categories |-> << >>]

\* variant: the block result names the block rule only
regex_block_result_block_rule_only(rule, triggered_filters) ==
    [is_allowed |-> FALSE, action |-> "block", filtered_content |-> << >>,
     message |-> << rule.message >>,
     triggered_filters |-> << triggered_filters[Len(triggered_filters)] >>,
     moderation_flagged |-> FALSE, moderation_categories |-> << >>]

\* the FilterResult of a block rule that matched
regex_block_result(rule, triggered_filters) ==
    FilterResult(FALSE, BLOCK, None, Some(rule.message), triggered_filters, FALSE, << >>)

\* replacement = filter_rule.replacement or "***"
effective_replacement(rule) ==
    IF TruthyText(rule.replacement) THEN rule.replacement[1] ELSE DefaultReplacement

\* the state after the loop: sanitized, or nothing triggered
regex_final_result(triggered_filters, filtered_content, sanitize_messages) ==
    IF triggered_filters # << >>
    THEN FilterResult(TRUE, SANITIZE, Some(filtered_content),
                      IF sanitize_messages # << >> THEN Some(sanitize_messages[1]) ELSE None,
                      triggered_filters, FALSE, << >>)
    ELSE FilterResult(TRUE, ALLOW, Some(filtered_content), None, << >>, FALSE, << >>)

\* the for loop over compiled_patterns.items(), from entry i on; evaluated
\* lists the rules whose pattern.search ran
RECURSIVE regex_loop(_, _, _, _, _, _, _)
regex_loop(compiled, content, i, triggered_filters, filtered_content, sanitize_messages, evaluated) ==
    IF i > Len(compiled)
    THEN [raised |-> FALSE, evaluated |-> evaluated,
          result |-> regex_final_result(triggered_filters, filtered_content,
                                        sanitize_messages)]
    ELSE LET e == compiled[i]
             seen == Append(evaluated, e.name)
         IN IF ~ re_search(e.pattern, content)
            THEN regex_loop(compiled, content, i + 1, triggered_filters,
                            filtered_content, sanitize_messages, seen)
            ELSE LET trig == Append(triggered_filters, e.name)
                 IN IF e.rule.action = BLOCK
                    THEN [raised |-> FALSE, evaluated |-> seen,
                          result |-> regex_block_result(e.rule, trig)]
                    ELSE IF e.rule.action = SANITIZE
                    THEN IF effective_replacement(e.rule) = BadTemplate
                         THEN [raised |-> TRUE, evaluated |-> seen, result |-> NoResult]
                         ELSE regex_loop(compiled, content, i + 1, trig,
                                         re_sub(e.pattern, effective_replacement(e.rule),
                                                filtered_content),
                                         Append(sanitize_messages, e.rule.message), seen)
                    ELSE regex_loop(compiled, content, i + 1, trig, filtered_content,
                                    sanitize_messages, seen)

apply_regex_filters(compiled, content) ==
    regex_loop(compiled, content, 1, << >>, content, << >>, << >>)


(***************************************************************************)
(* PromptFilterService._check_openai_moderation.  mod is what the          *)
(* moderation endpoint does with this request: it answers ("ok", with      *)
(* flagged and the categories), it answers with an error status          *)
(* ("http_status_error": raise_for_status raises httpx.HTTPStatusError,    *)
(* which carries the response), the request itself fails                   *)
(* ("http_request_error": a timeout or a connection failure, an            *)
(* httpx.RequestError, which has no response attribute) or anything else   *)
(* goes wrong ("error").                                                   *)
(***************************************************************************)
ModAnswer(kind, flagged, categories) ==
    [kind |-> kind, flagged |-> flagged, categories |-> categories]

ModOutcomes ==
    { ModAnswer("ok", FALSE, << <<"hate", FALSE>>, <<"violence", FALSE>> >>),
      ModAnswer("ok", TRUE, << <<"hate", TRUE>>, <<"spam", FALSE>>, <<"violence", TRUE>> >>),
      ModAnswer("http_status_error", FALSE, << >>),
      ModAnswer("http_request_error", FALSE, << >>),
      ModAnswer("error", FALSE, << >>) }

OpenAIModerationResult(flagged, categories, posted) ==
    [flagged |-> flagged, categories |-> categories, posted |-> posted]

\* the except httpx.HTTPError handler reads e.response while it logs: for an
\* error without that attribute the handler itself raises AttributeError,
\* which no clause of this try statement catches
moderation_raises(st, mod) ==
    st.OPENAI_API_KEY /\ mod.kind = "http_request_error"

\* the value returned when the call does not raise
check_openai_moderation(st, content, mod) ==
    IF ~ st.OPENAI_API_KEY
    THEN OpenAIModerationResult(FALSE, << >>, FALSE)
    ELSE IF mod.kind = "ok"
    THEN OpenAIModerationResult(mod.flagged, mod.categories, TRUE)
    ELSE IF mod.kind \in {"http_status_error", "http_request_error"}
    THEN IF st.PROMPT_FILTER_STRICT_MODE
         THEN OpenAIModerationResult(TRUE, << <<"api_error", TRUE>> >>, TRUE)
         ELSE OpenAIModerationResult(FALSE, << >>, TRUE)
    ELSE IF st.PROMPT_FILTER_STRICT_MODE
         THEN OpenAIModerationResult(TRUE, << <<"system_error", TRUE>> >>, TRUE)
         ELSE OpenAIModerationResult(FALSE, << >>, TRUE)

\* variant: every category of the answer, flagged or not
all_categories(categories) == [i \in DOMAIN categories |-> categories[i][1]]

\* [category for category, flagged in categories.items() if flagged]
RECURSIVE flagged_categories(_)
flagged_categories(categories) ==
    IF categories = << >> THEN << >>
    ELSE (IF categories[1][2] THEN << categories[1][1] >> ELSE << >>)
         \o flagged_categories(Tail(categories))

(***************************************************************************)
(* PromptFilterService.filter_prompt.  Besides the FilterResult the        *)
(* outcome records what the call did: the rules evaluated, the regex       *)
(* stage's own result, the texts handed to the moderation check and the    *)
(* events sent to log_security_event.                                      *)
(***************************************************************************)
SecurityEvent(event_type, names) == [event_type |-> event_type, names |-> names]

FilterOutcome(result, evaluated, regex, mod_calls, audit) ==
    [result |-> result, evaluated |-> evaluated, regex |-> regex,
     mod_calls |-> mod_calls, audit |-> audit]

\* variant: the except branch lets the content through in either mode
filter_error_result_fail_open(st, content) ==
    [is_allowed |-> TRUE, action |-> "allow", filtered_content |-> << content >>,
     message |-> << >>, triggered_filters |-> << >>,
     moderation_flagged |-> FALSE, moderation_categories |-> << >>]

\* the except branch at the end of filter_prompt
filter_error_result(st, content) ==
    IF st.PROMPT_FILTER_STRICT_MODE
    THEN FilterResult(FALSE, BLOCK, None, Some(MsgFilterError), << >>, FALSE, << >>)
    ELSE FilterResult(TRUE, ALLOW, Some(content), None, << >>, FALSE, << >>)

\* variant: the moderation block keeps the regex stage's action
moderation_block_result_keeps_action(regex_result, moderation_result) ==
    [regex_result EXCEPT !.is_allowed = FALSE, !.moderation_flagged = TRUE,
                         !.filtered_content = << >>]

\* the FilterResult when the moderation check flagged the content
moderation_block_result(regex_result, moderation_result) ==
    FilterResult(FALSE, BLOCK, None, Some(MsgModeration), regex_result.triggered_filters,
                 TRUE, flagged_categories(moderation_result.categories))

\* the FilterResult when the content passed all checks
final_result(regex_result) ==
    FilterResult(TRUE, regex_result.action, regex_result.filtered_content,
                 regex_result.message, regex_result.triggered_filters, FALSE, << >>)

\* variant: the moderation check reads the content as received
content_to_check_unfiltered(regex_result, content) == content

\* content_to_check = regex_result.filtered_content or content
content_to_check(regex_result, content) ==
    IF TruthyText(regex_result.filtered_content)
    THEN regex_result.filtered_content[1] ELSE content

\* the stages after the regex stage returned an allowed result
moderation_stage(st, content, mod, rx) ==
    LET text == content_to_check(rx.result, content)
        called == st.OPENAI_MODERATION_ENABLED
        moderation_result == check_openai_moderation(st, text, mod)
        calls == IF called THEN << text >> ELSE << >>
    IN IF called /\ moderation_raises(st, mod)
       THEN FilterOutcome(filter_error_result(st, content), rx.evaluated,
                          Some(rx.result), calls,
                          << SecurityEvent("PROMPT_FILTER_ERROR", << >>) >>)
       ELSE IF called /\ moderation_result.flagged
       THEN FilterOutcome(moderation_block_result(rx.result, moderation_result),
                          rx.evaluated, Some(rx.result), calls,
                          << SecurityEvent("PROMPT_BLOCKED_MODERATION",
                                           flagged_categories(moderation_result.categories)) >>)
       ELSE FilterOutcome(final_result(rx.result), rx.evaluated, Some(rx.result), calls,
                          IF rx.result.triggered_filters # << >>
                          THEN << SecurityEvent("PROMPT_SANITIZED",
                                                rx.result.triggered_filters) >>
                          ELSE << >>)

\* the stages from the regex stage on
regex_stage(st, compiled, content, mod) ==
    LET rx == apply_regex_filters(compiled, content)
    IN IF rx.raised
       THEN FilterOutcome(filter_error_result(st, content), rx.evaluated, None, << >>,
                          << SecurityEvent("PROMPT_FILTER_ERROR", << >>) >>)
       ELSE IF ~ rx.result.is_allowed
       THEN FilterOutcome(rx.result, rx.evaluated, Some(rx.result), << >>,
                          << SecurityEvent("PROMPT_BLOCKED_REGEX",
                                           rx.result.triggered_filters) >>)
       ELSE moderation_stage(st, content, mod, rx)

filter_prompt(st, config, compiled, content, mod) ==
    IF ~ st.PROMPT_FILTER_ENABLED
    THEN FilterOutcome(FilterResult(TRUE, ALLOW, Some(content), None, << >>, FALSE, << >>),
                       << >>, None, << >>, << >>)
    ELSE LET ml == config.settings.max_message_length
         IN IF ml # None /\ ml[1].type # "int"
            THEN FilterOutcome(filter_error_result(st, content), << >>, None, << >>,
                               << SecurityEvent("PROMPT_FILTER_ERROR", << >>) >>)
            ELSE LET max_length == IF ml = None THEN DefaultMaxMessageLength
                                   ELSE ml[1].value
                 IN IF Len(content) > max_length
                    THEN FilterOutcome(
                             FilterResult(FALSE, BLOCK, None, Some(MsgTooLong), << >>,
                                          FALSE, << >>),
                             << >>, None, << >>,
                             << SecurityEvent("PROMPT_LENGTH_EXCEEDED", << >>) >>)
                    ELSE regex_stage(st, compiled, content, mod)

(***************************************************************************)
(* app.core.security: PIIDetector, DataMasker, PIIHandler.  A PII pattern  *)
(* is modelled by the token it matches, a spaCy entity label by the token  *)
(* the model recognises; spans are 0-based and half-open as in Python.     *)
(***************************************************************************)
PIIPattern(name, pattern, mask_with, priority) ==
    [name |-> name, pattern |-> pattern, mask_with |-> mask_with, priority |-> priority]

patterns ==
    << PIIPattern("email", << "e" >>, << "[", "E", "]" >>, 1),
       PIIPattern("ssn", << "d", "d" >>, << "[", "S", "]" >>, 2) >>

ner_types == << PIIPattern("PERSON", << "n" >>, << "[", "P", "]" >>, 1) >>

Match(start, end, value, type, mask, priority) ==
    [start |-> start, end |-> end, value |-> value, type |-> type, mask |-> mask,
     priority |-> priority]

\* re.finditer(pattern, text) from 0-based offset `from` on
RECURSIVE finditer(_, _, _)
finditer(p, text, from) ==
    IF from + Len(p.pattern) > Len(text) THEN << >>
    ELSE IF SubSeq(text, from + 1, from + Len(p.pattern)) = p.pattern
         THEN << Match(from, from + Len(p.pattern), p.pattern, p.name, p.mask_with,
                       p.priority) >>
              \o finditer(p, text, from + Len(p.pattern))
         ELSE finditer(p, text, from + 1)

RECURSIVE detect_with(_, _, _)
detect_with(ps, text, i) ==
    IF i > Len(ps) THEN << >>
    ELSE finditer(ps[i], text, 0) \o detect_with(ps, text, i + 1)

detect_regex_pii(text) == detect_with(patterns, text, 1)

detect_ner_pii(text) == detect_with(ner_types, text, 1)

\* key (-start, -priority): m sorts strictly before x
SortsBefore(m, x) ==
    m.start > x.start \/ (m.start = x.start /\ m.priority > x.priority)

\* list.sort is stable: m goes after the elements whose key is not greater
RECURSIVE sort_insert(_, _)
sort_insert(sorted, m) ==
    IF sorted = << >> THEN << m >>
    ELSE IF SortsBefore(m, sorted[1]) THEN << m >> \o sorted
         ELSE << sorted[1] >> \o sort_insert(Tail(sorted), m)

RECURSIVE sort_matches(_, _, _)
sort_matches(matches, i, sorted) ==
    IF i > Len(matches) THEN sorted
    ELSE sort_matches(matches, i + 1, sort_insert(sorted, matches[i]))

\* len(set(range(a)).intersection(range(b))) > 0
ranges_overlap(a, b) ==
    (IF a.start > b.start THEN a.start ELSE b.start)
        < (IF a.end < b.end THEN a.end ELSE b.end)

\* chars[start:end] = list(mask)
splice(chars, m) ==
    SubSeq(chars, 1, m.start) \o m.mask \o SubSeq(chars, m.end + 1, Len(chars))

RECURSIVE mask_loop(_, _, _, _)
mask_loop(sorted, i, chars, masked_ranges) ==
    IF i > Len(sorted) THEN chars
    ELSE IF \E r \in masked_ranges : ranges_overlap(sorted[i], r)
         THEN mask_loop(sorted, i + 1, chars, masked_ranges)
         ELSE mask_loop(sorted, i + 1, splice(chars, sorted[i]),
                        masked_ranges \cup { [start |-> sorted[i].start,
                                              end |-> sorted[i].end] })

mask_text(text, matches) ==
    mask_loop(sort_matches(matches, 1, << >>), 1, text, {})

\* PIIHandler.process_text; fails: detection or masking raises
process_text(text, fails) ==
    IF fails THEN text
    ELSE mask_text(text, detect_regex_pii(text) \o detect_ner_pii(text))

(***************************************************************************)
(* ChatService.  The chat repository is an external collaborator: the      *)
(* conversation lookup or creation either returns the conversation or      *)
(* raises; rows are appended to the messages table in call order.          *)
(***************************************************************************)
max_retries == 3
ContextLimit == 10
DefaultBlockText == "Your message was blocked by our content filter."

Row(role, content, meta) == [role |-> role, content |-> content, meta |-> meta]

\* _get_conversation_context: the first `limit` rows as {role, content}
get_conversation_context(rows) ==
    [i \in 1..(IF Len(rows) < ContextLimit THEN Len(rows) ELSE ContextLimit) |->
        [role |-> rows[i].role, content |-> rows[i].content]]

\* the user-facing texts are strings, the contents sequences of characters:
\* a filter message is stored as a one-element content
AsContent(str) == << str >>

\* content of the stored system message of a blocked attempt
block_message_content(filter_result) ==
    IF TruthyStr(filter_result.message) THEN AsContent(filter_result.message[1])
    ELSE AsContent(DefaultBlockText)

\* the two rows stored for a blocked attempt
blocked_rows(message, filter_result) ==
    << Row("user", message, "blocked"),
       Row("system", block_message_content(filter_result), "filter_block") >>

\* processed_message = filter_result.filtered_content or message
processed_message(filter_result, message) ==
    IF TruthyText(filter_result.filtered_content)
    THEN filter_result.filtered_content[1] ELSE message

\* what the AI service does with the up-to-max_retries generate_response
\* calls of one request: fails k times and then answers, or always fails
AIAnswers(failures, content) == [failures |-> failures, content |-> content]

ChatCall(message, flt, conv_ok, pii_in, pii_out, attempts, ai_message, ai_context, outcome, status, response, stored, created) ==
    [called |-> TRUE, message |-> message, filter |-> flt, conv_ok |-> conv_ok,
     pii_fail_in |-> pii_in, pii_fail_out |-> pii_out, ai_attempts |-> attempts,
     ai_message |-> ai_message, ai_context |-> ai_context, outcome |-> outcome,
     status |-> status, response |-> response, stored |-> stored,
     conversation_created |-> created]

NoResponse == [role |-> "", content |-> << >>]

NoChatCall ==
    [called |-> FALSE, message |-> << >>, filter |-> NoResult, conv_ok |-> FALSE,
     pii_fail_in |-> FALSE, pii_fail_out |-> FALSE, ai_attempts |-> 0,
     ai_message |-> << >>, ai_context |-> << >>, outcome |-> "", status |-> 0,
     response |-> NoResponse, stored |-> << >>, conversation_created |-> FALSE]

\* the branch `if not filter_result.is_allowed`
process_blocked(message, flt, conv_ok, created) ==
    IF ~ conv_ok
    THEN ChatCall(message, flt, FALSE, FALSE, FALSE, 0, << >>, << >>, "raised", 404,
                  NoResponse, << >>, FALSE)
    ELSE ChatCall(message, flt, TRUE, FALSE, FALSE, 0, << >>, << >>, "returned", 201,
                  [role |-> blocked_rows(message, flt)[2].role,
                   content |-> blocked_rows(message, flt)[2].content],
                  blocked_rows(message, flt), created)

\* the rows stored after the AI answered
answered_rows(masked_message, masked_ai_response, flt) ==
    << Row("user", masked_message, IF flt.action = SANITIZE THEN "sanitized" ELSE ""),
       Row("assistant", masked_ai_response, "") >>

\* the path of an allowed message, from the conversation lookup on
process_allowed(rows, message, flt, conv_ok, created, pii_in, ai, pii_out) ==
    IF ~ conv_ok
    THEN ChatCall(message, flt, FALSE, FALSE, FALSE, 0, << >>, << >>, "raised", 404,
                  NoResponse, << >>, FALSE)
    ELSE LET context == get_conversation_context(rows)
             masked_message == process_text(processed_message(flt, message), pii_in)
         IN IF ai.failures >= max_retries
            THEN ChatCall(message, flt, TRUE, pii_in, FALSE, max_retries, masked_message,
                          context, "raised", 503, NoResponse, << >>, created)
            ELSE LET masked_ai_response == process_text(ai.content, pii_out)
                     stored == answered_rows(masked_message, masked_ai_response, flt)
                 IN ChatCall(message, flt, TRUE, pii_in, pii_out, ai.failures + 1,
                             masked_message, context, "returned", 201,
                             [role |-> stored[2].role, content |-> stored[2].content],
                             stored, created)

\* variant: the filter verdict is not consulted
process_message_without_gate(st, config, compiled, rows, have_conv, message, mod, conv_ok, pii_in, ai, pii_out) ==
    process_allowed(rows, message, filter_prompt(st, config, compiled, message, mod).result,
                    conv_ok, conv_ok /\ ~ have_conv, pii_in, ai, pii_out)

process_message(st, config, compiled, rows, have_conv, message, mod, conv_ok, pii_in, ai, pii_out) ==
    LET flt == filter_prompt(st, config, compiled, message, mod).result
        created == conv_ok /\ ~ have_conv
    IN IF ~ flt.is_allowed
       THEN process_blocked(message, flt, conv_ok, created)
       ELSE process_allowed(rows, message, flt, conv_ok, created, pii_in, ai, pii_out)

(***************************************************************************)
(* api/v1/chat.py: the POST /chat endpoint around process_message.         *)
(***************************************************************************)
HttpResponse(status_code, detail) == [status_code |-> status_code, detail |-> detail]

NoHttpResponse == HttpResponse(0, "")

\* what process_message raises: fastapi.HTTPException with the status
raised_exception(c) == [class |-> "fastapi.HTTPException", status_code |-> c.status]

\* send_message: the response model on return, else the first except clause
\* whose class the exception is an instance of
send_message(c) ==
    IF c.outcome = "returned" THEN HttpResponse(201, "")
    ELSE LET e == raised_exception(c)
         IN IF e.class = "ValueError" THEN HttpResponse(404, "")
            ELSE IF e.class = "app.core.security.exceptions.TenantMismatchError"
            THEN HttpResponse(403, "")
            ELSE IF e.class = "app.core.security.exceptions.AIServiceError"
            THEN HttpResponse(503, "AI service error")
            ELSE HttpResponse(500, "Failed to process message")

(***************************************************************************)
(* app.services.ai: AIService.  A request is the (message, context,        *)
(* model_type) triple; the provider answers a call with one of its         *)
(* responses or fails.  The cache store is Redis: a get or set that fails  *)
(* is logged and ignored.                                                  *)
(***************************************************************************)
OPENAI == "openai"
LLAMA == "llama"
ModelTypes == { OPENAI, LLAMA }

AIMessages == { << "h", "i" >>, << "[", "E", "]" >> }
AIContext == << >>
ProviderResponses == { << "x" >>, << "y" >> }

\* _generate_cache_key: sha256 of the canonical JSON of the triple, taken
\* to be collision free
generate_cache_key(message, context, model_type) == << message, context, model_type >>

CacheKeys == { generate_cache_key(m, AIContext, t) : m \in AIMessages, t \in ModelTypes }

AISettings(fallback_enabled, redis_up) ==
    [fallback_enabled |-> fallback_enabled, redis_up |-> redis_up]

\* _get_cached_response: the stored response, None on a miss or an error
get_cached_response(st, store, cache_key) ==
    IF st.redis_up THEN store[cache_key] ELSE None

\* variant: the store keeps the first response written under a key
cache_response_keep_first(st, store, cache_key, response) ==
    IF st.redis_up /\ store[cache_key] = << >>
    THEN [store EXCEPT ![cache_key] = << response >>] ELSE store

\* _cache_response: redis.set, an error is ignored
cache_response(st, store, cache_key, response) ==
    IF st.redis_up THEN [store EXCEPT ![cache_key] = Some(response)] ELSE store

\* what a coroutine did, in order
Event(kind, model, ok, content, n) ==
    [kind |-> kind, model |-> model, ok |-> ok, content |-> content, n |-> n]

\* what the provider does with one call
ProviderAnswer(ok, content) == [ok |-> ok, content |-> content]
ProviderAnswers ==
    { ProviderAnswer(TRUE, r) : r \in ProviderResponses } \cup { ProviderAnswer(FALSE, << >>) }

retry_delay == 1

\* a request in the retry loop of process_message: pc is the await it is
\* suspended at, model the model_type of the generate_response frame it is in
Caller(pc, message, model_type, model, attempt, response, log, outcome, status, content) ==
    [pc |-> pc, message |-> message, model_type |-> model_type, model |-> model,
     attempt |-> attempt, response |-> response, log |-> log, outcome |-> outcome,
     status |-> status, content |-> content]

CallerIds == { "c1", "c2" }

\* generate_response up to the cache lookup; prior is what the callers that
\* already returned for this triple received
after_lookup(st, store, k, prior) ==
    LET cached == get_cached_response(st, store,
                      generate_cache_key(k.message, AIContext, k.model))
        log == IF k.model = k.model_type
               THEN Append(k.log, Event("start", k.model_type, FALSE, prior, k.attempt))
               ELSE k.log
    IN IF cached # None
       THEN Caller("done", k.message, k.model_type, k.model, k.attempt, None,
                   Append(log, Event("hit", k.model, TRUE, cached, 0)),
                   "returned", 0, cached[1])
       ELSE Caller("call", k.message, k.model_type, k.model, k.attempt, None, log,
                   "", 0, << >>)

\* the except clause of the retry loop: 503 after the last attempt, else
\* asyncio.sleep(retry_delay * (attempt + 1)) and the next attempt
after_raise(k, log) ==
    IF k.attempt = max_retries - 1
    THEN Caller("done", k.message, k.model_type, k.model, k.attempt, None,
                Append(log, Event("raise", k.model_type, FALSE, None, 0)), "raised", 503, << >>)
    ELSE Caller("lookup", k.message, k.model_type, k.model_type, k.attempt + 1, None,
                log \o << Event("raise", k.model_type, FALSE, None, 0),
                          Event("sleep", k.model_type, FALSE, None,
                                retry_delay * (k.attempt + 1)) >>,
                "", 0, << >>)

\* variant: the fallback is tried whether or not it is enabled
after_call_ignores_fallback_flag(st, k, answer) ==
    LET log == Append(k.log, Event("call", k.model, answer.ok,
                                   IF answer.ok THEN << answer.content >> ELSE << >>, 0))
    IN IF answer.ok
       THEN [k EXCEPT !.pc = "store", !.response = << answer.content >>, !.log = log]
       ELSE IF k.model # "llama"
       THEN [k EXCEPT !.pc = "lookup", !.model = "llama", !.log = log]
       ELSE after_raise(k, log)

\* variant: the outcome of a failed call is cached too
after_call_caches_failure(st, k, answer) ==
    [k EXCEPT !.pc = "store", !.response = << answer.content >>,
              !.log = Append(k.log, Event("call", k.model, answer.ok,
                                          IF answer.ok THEN << answer.content >>
                                          ELSE << >>, 0))]

\* generate_response from the answer of _call_ai_service on
after_call(st, k, answer) ==
    LET log == Append(k.log, Event("call", k.model, answer.ok,
                                   IF answer.ok THEN Some(answer.content) ELSE None, 0))
    IN IF answer.ok
       THEN Caller("store", k.message, k.model_type, k.model, k.attempt,
                   Some(answer.content), log, "", 0, << >>)
       ELSE IF st.fallback_enabled /\ k.model # LLAMA
       THEN Caller("lookup", k.message, k.model_type, LLAMA, k.attempt, None, log,
                   "", 0, << >>)
       ELSE after_raise(k, log)

\* generate_response from _cache_response to the return
after_store(st, k) ==
    Caller("done", k.message, k.model_type, k.model, k.attempt, None,
           IF st.redis_up
           THEN Append(k.log, Event("write", k.model, TRUE, k.response, 0))
           ELSE k.log,
           "returned", 0, k.response[1])

NoCaller == Caller("idle", << >>, OPENAI, OPENAI, 0, None, << >>, "", 0, << >>)

AIIdle ==
    /\ ai_settings = AISettings(FALSE, FALSE)
    /\ cache = [key \in CacheKeys |-> None]
    /\ cache_log = << >>
    /\ callers = [c \in CallerIds |-> NoCaller]

(***************************************************************************)
(* The patterns of the AI service, on texts written with a letter "a", a   *)
(* digit "1", ".", "@", " ", "*" and "#".  The email and the ip address     *)
(* patterns are matched as re does: leftmost, greedy, with backtracking.    *)
(* The texts given to PIIHandler hold no three digits in a row, so its      *)
(* phone, ssn and credit card patterns (each                                *)
(* needs \d{3}) match nowhere in them; the texts given to PIIDetector hold  *)
(* no digit, so of its patterns only EMAIL can match (the others need a     *)
(* digit or "http").  Positions are 0-based.                                *)
(***************************************************************************)
\* \w, \d and the character classes of the email patterns: [A-Za-z0-9._%+-]
\* of the local part, [A-Za-z0-9.-] of the domain, [A-Za-z] of its last label
InClass(class, c) ==
    IF class = "word" THEN c \in {"a", "1"}
    ELSE IF class = "digit" THEN c = "1"
    ELSE IF class = "local" THEN c \in {"a", "1", "."}
    ELSE IF class = "domain" THEN c \in {"a", "1", "."}
    ELSE c = "a"

\* \b at position p
word_boundary(text, p) ==
    (p > 0 /\ InClass("word", text[p])) # (p < Len(text) /\ InClass("word", text[p + 1]))

\* where the run of characters of the class that starts at p ends
run_end(text, p, class) ==
    CHOOSE q \in p..Len(text) :
        /\ \A r \in (p + 1)..q : InClass(class, text[r])
        /\ q = Len(text) \/ ~ InClass(class, text[q + 1])

no_match == -1

\* [A-Za-z0-9._%+-]+@[A-Za-z0-9.-]+\.[A-Za-z]{2,}, between two \b when
\* `bounded`: the end of the match that starts at p, or no_match
email_match_end(text, p, bounded) ==
    LET at == run_end(text, p, "local")
        stop == IF at < Len(text) THEN run_end(text, at + 1, "domain") ELSE at
        dots == { dot \in (at + 2)..(stop - 1) :
                     /\ text[dot + 1] = "."
                     /\ run_end(text, dot + 1, "tld") - (dot + 1) >= 2
                     /\ bounded => word_boundary(text, run_end(text, dot + 1, "tld")) }
        good == { run_end(text, dot + 1, "tld") : dot \in dots }
    IN IF /\ at > p
          /\ at < Len(text)
          /\ text[at + 1] = "@"
          /\ bounded => word_boundary(text, p)
          /\ good # {}
       THEN CHOOSE e \in good : \A other \in good : other <= e ELSE no_match

\* one \d{1,3} that starts at p: its end, or no_match
octet_end(text, p) ==
    IF p < 0 \/ p >= Len(text) THEN no_match
    ELSE LET e == run_end(text, p, "digit")
         IN IF e > p /\ e - p <= 3 THEN e ELSE no_match

\* the "." that follows an octet: the position after it, or no_match
dot_end(text, p) ==
    IF p >= 0 /\ p < Len(text) /\ text[p + 1] = "." THEN p + 1 ELSE no_match

\* \b\d{1,3}\.\d{1,3}\.\d{1,3}\.\d{1,3}\b
ip_match_end(text, p) ==
    LET e == octet_end(text, dot_end(text, octet_end(text, dot_end(text,
                 octet_end(text, dot_end(text, octet_end(text, p)))))))
    IN IF word_boundary(text, p) /\ e # no_match /\ word_boundary(text, e)
       THEN e ELSE no_match

pattern_match_end(kind, text, p) ==
    IF kind = "email" THEN email_match_end(text, p, TRUE)
    ELSE IF kind = "email_unbounded" THEN email_match_end(text, p, FALSE)
    ELSE IF kind = "ip" THEN ip_match_end(text, p)
    ELSE no_match

\* pattern.finditer(text): the spans of the matches, from position p on
RECURSIVE regex_finditer(_, _, _)
regex_finditer(kind, text, p) ==
    IF p >= Len(text) THEN << >>
    ELSE LET e == pattern_match_end(kind, text, p)
         IN IF e = no_match THEN regex_finditer(kind, text, p + 1)
            ELSE << [start |-> p, end |-> e] >> \o regex_finditer(kind, text, e)

\* text[start:end]
py_slice(text, start, end) == SubSeq(text, start + 1, end)

(***************************************************************************)
(* ai_service/security/pii_detector.py: PIIDetector.  Spans are 0-based    *)
(* and half-open as in Python; a confidence is counted in tenths.          *)
(***************************************************************************)
PIIMatch(start, end, text, pii_type, confidence) ==
    [start |-> start, end |-> end, text |-> text, pii_type |-> pii_type,
     confidence |-> confidence]

\* confidence=1.0 of a pattern match, 0.8 of an entity
pattern_confidence == 10
ner_confidence == 8

\* list.sort(key=start) is stable: m goes after the elements that do not
\* start later
RECURSIVE insert_by_start(_, _)
insert_by_start(sorted, m) ==
    IF sorted = << >> THEN << m >>
    ELSE IF m.start < sorted[1].start THEN << m >> \o sorted
         ELSE << sorted[1] >> \o insert_by_start(Tail(sorted), m)

RECURSIVE sort_by_start(_, _, _)
sort_by_start(matches, i, sorted) ==
    IF i > Len(matches) THEN sorted
    ELSE sort_by_start(matches, i + 1, insert_by_start(sorted, matches[i]))

\* what one iteration of the loop of _remove_overlaps does with `current`
overlap_decision(prev, current) ==
    IF current.start <= prev.end
    THEN IF current.confidence > prev.confidence THEN "replace" ELSE "drop"
    ELSE "append"

\* variant: every candidate is appended
overlap_step_keeps_all(result, current) == Append(result, current)

\* one iteration of the loop of _remove_overlaps
overlap_step(result, current) ==
    LET decision == overlap_decision(result[Len(result)], current)
    IN IF decision = "replace" THEN [result EXCEPT ![Len(result)] = current]
       ELSE IF decision = "drop" THEN result
       ELSE Append(result, current)

RECURSIVE overlaps_loop(_, _, _)
overlaps_loop(matches, i, result) ==
    IF i > Len(matches) THEN result
    ELSE overlaps_loop(matches, i + 1, overlap_step(result, matches[i]))

remove_overlaps(matches) ==
    IF matches = << >> THEN << >>
    ELSE overlaps_loop(matches, 2, << matches[1] >>)

\* the iterations of the loop: the last accepted match, the candidate and
\* what was done with it
RECURSIVE overlaps_trace(_, _, _)
overlaps_trace(matches, i, result) ==
    IF i > Len(matches) THEN << >>
    ELSE << [prev |-> result[Len(result)], current |-> matches[i],
             decision |-> overlap_decision(result[Len(result)], matches[i])] >>
         \o overlaps_trace(matches, i + 1, overlap_step(result, matches[i]))

\* detect, from the matches the patterns and the entity recogniser found
detect_from(pattern_matches, ner_matches) ==
    remove_overlaps(sort_by_start(pattern_matches \o ner_matches, 1, << >>))

DetectCall(pattern_matches, ner_matches) ==
    [called |-> TRUE, pattern_matches |-> pattern_matches, ner_matches |-> ner_matches,
     all_matches |-> sort_by_start(pattern_matches \o ner_matches, 1, << >>),
     steps |-> IF pattern_matches \o ner_matches = << >> THEN << >>
               ELSE LET sorted == sort_by_start(pattern_matches \o ner_matches, 1, << >>)
                    IN overlaps_trace(sorted, 2, << sorted[1] >>),
     result |-> detect_from(pattern_matches, ner_matches)]

NoDetectCall ==
    [called |-> FALSE, pattern_matches |-> << >>, ner_matches |-> << >>,
     all_matches |-> << >>, steps |-> << >>, result |-> << >>]

\* _find_pattern_matches on a text without digits: the matches of EMAIL
RECURSIVE as_pattern_matches(_, _, _, _)
as_pattern_matches(spans, i, text, pii_type) ==
    IF i > Len(spans) THEN << >>
    ELSE << PIIMatch(spans[i].start, spans[i].end,
                     py_slice(text, spans[i].start, spans[i].end), pii_type,
                     pattern_confidence) >>
         \o as_pattern_matches(spans, i + 1, text, pii_type)

find_pattern_matches(text) ==
    as_pattern_matches(regex_finditer("email", text, 0), 1, text, "email")

\* detect; ner_matches is what _find_ner_matches makes of the entities spaCy
\* finds in the text
detect(text, ner_matches) == detect_from(find_pattern_matches(text), ner_matches)

high_confidence == 8

\* validate_pii_removal: no match of the masked text has confidence > 0.8
validate_pii_removal(original_text, masked_text, ner_matches) ==
    ~ \E i \in DOMAIN detect(masked_text, ner_matches) :
          detect(masked_text, ner_matches)[i].confidence > high_confidence

(***************************************************************************)
(* ai_service/security/data_masker.py: DataMasker with DEFAULT_CONFIGS.    *)
(***************************************************************************)
MaskingConfig(mask_char, preserve_length, hash_mode, keep_prefix, keep_suffix) ==
    [mask_char |-> mask_char, preserve_length |-> preserve_length,
     hash_mode |-> hash_mode, keep_prefix |-> keep_prefix, keep_suffix |-> keep_suffix]

DEFAULT_CONFIGS ==
    [email |-> MaskingConfig("*", FALSE, FALSE, 2, 4),
     phone |-> MaskingConfig("*", TRUE, FALSE, 2, 2),
     credit_card |-> MaskingConfig("*", TRUE, FALSE, 0, 4),
     ssn |-> MaskingConfig("*", TRUE, FALSE, 0, 4),
     person |-> MaskingConfig("*", FALSE, TRUE, 0, 0),
     default |-> MaskingConfig("*", TRUE, FALSE, 0, 0)]

\* self.configs.get(pii_type, self.configs['default'])
config_for(pii_type) ==
    IF pii_type \in DOMAIN DEFAULT_CONFIGS THEN DEFAULT_CONFIGS[pii_type]
    ELSE DEFAULT_CONFIGS["default"]

\* n times the character c
repeat(c, n) == [i \in 1..n |-> c]

\* hashlib.md5(value).hexdigest()[:8]: eight hexadecimal digits, written "#"
\* (no text of the model holds a hexadecimal digit of its own)
hexdigest_prefix(value) == repeat("#", 8)

\* value[:n] and value[-n:]
py_prefix(value, n) == SubSeq(value, 1, IF n < Len(value) THEN n ELSE Len(value))
py_suffix(value, n) == SubSeq(value, (IF n < Len(value) THEN Len(value) - n ELSE 0) + 1, Len(value))

\* _mask_value
mask_value(value, pii_type, config) ==
    IF config.hash_mode THEN hexdigest_prefix(value)
    ELSE LET prefix == IF config.keep_prefix > 0 THEN py_prefix(value, config.keep_prefix)
                       ELSE << >>
             suffix == IF config.keep_suffix > 0 THEN py_suffix(value, config.keep_suffix)
                       ELSE << >>
             mask_length == Len(value) - Len(prefix) - Len(suffix)
         IN IF mask_length <= 0 THEN value
            ELSE prefix
                 \o (IF config.preserve_length THEN repeat(config.mask_char, mask_length)
                     ELSE repeat(config.mask_char, 3))
                 \o suffix

\* chars[start:end] = value, with Python's clamping of slice indices
slice_assign(chars, start, end, value) ==
    LET lo == IF start < Len(chars) THEN start ELSE Len(chars)
        hi0 == IF end < Len(chars) THEN end ELSE Len(chars)
        hi == IF hi0 < lo THEN lo ELSE hi0
    IN SubSeq(chars, 1, lo) \o value \o SubSeq(chars, hi + 1, Len(chars))

\* list.sort(key=start, reverse=True) is stable: m goes after the elements
\* that do not start earlier
RECURSIVE insert_by_start_reverse(_, _)
insert_by_start_reverse(sorted, m) ==
    IF sorted = << >> THEN << m >>
    ELSE IF m.start > sorted[1].start THEN << m >> \o sorted
         ELSE << sorted[1] >> \o insert_by_start_reverse(Tail(sorted), m)

\* variant: the matches are processed from the start of the text to its end
sort_for_masking_ascending(matches, i, sorted) == sort_by_start(matches, i, sorted)

RECURSIVE sort_for_masking(_, _, _)
sort_for_masking(matches, i, sorted) ==
    IF i > Len(matches) THEN sorted
    ELSE sort_for_masking(matches, i + 1, insert_by_start_reverse(sorted, matches[i]))

RECURSIVE masking_loop(_, _, _)
masking_loop(sorted, i, chars) ==
    IF i > Len(sorted) THEN chars
    ELSE masking_loop(sorted, i + 1,
             slice_assign(chars, sorted[i].start, sorted[i].end,
                          mask_value(sorted[i].text, sorted[i].pii_type,
                                     config_for(sorted[i].pii_type))))

\* DataMasker.mask_text of the AI service
masker_mask_text(text, pii_matches) ==
    IF pii_matches = << >> THEN text
    ELSE masking_loop(sort_for_masking(pii_matches, 1, << >>), 1, text)

MaskCall(text, pii_matches) ==
    [called |-> TRUE, text |-> text, pii_matches |-> pii_matches,
     masked |-> masker_mask_text(text, pii_matches)]

NoMaskCall == [called |-> FALSE, text |-> << >>, pii_matches |-> << >>, masked |-> << >>]

\* detect -> mask_text -> validate_pii_removal on one text
RemovalCall(text, ner_matches, ner_masked) ==
    [called |-> TRUE, text |-> text,
     matches |-> detect(text, ner_matches),
     masked |-> masker_mask_text(text, detect(text, ner_matches)),
     valid |-> validate_pii_removal(text,
                   masker_mask_text(text, detect(text, ner_matches)), ner_masked)]

NoRemovalCall ==
    [called |-> FALSE, text |-> << >>, matches |-> << >>, masked |-> << >>, valid |-> TRUE]

(***************************************************************************)
(* ai_service/security/pii_handler.py: PIIDetector.detect_pii and          *)
(* PIIHandler.  A mask such as "[EMAIL]" is one element of the output.     *)
(***************************************************************************)
RECURSIVE as_pii_matches(_, _, _, _)
as_pii_matches(spans, i, text, type) ==
    IF i > Len(spans) THEN << >>
    ELSE << [type |-> type, span |-> << spans[i].start, spans[i].end >>,
             value |-> py_slice(text, spans[i].start, spans[i].end)] >>
         \o as_pii_matches(spans, i + 1, text, type)

\* all_matches.sort(key=span[0]) is stable
RECURSIVE insert_by_span(_, _)
insert_by_span(sorted, m) ==
    IF sorted = << >> THEN << m >>
    ELSE IF m.span[1] < sorted[1].span[1] THEN << m >> \o sorted
         ELSE << sorted[1] >> \o insert_by_span(Tail(sorted), m)

RECURSIVE sort_by_span(_, _, _)
sort_by_span(matches, i, sorted) ==
    IF i > Len(matches) THEN sorted
    ELSE sort_by_span(matches, i + 1, insert_by_span(sorted, matches[i]))

\* detect_pii: emails, phones, ssns, credit cards, ips, then the sort
detect_pii(text) ==
    IF text = << >> THEN << >>
    ELSE sort_by_span(
             as_pii_matches(regex_finditer("email_unbounded", text, 0), 1, text, "email")
             \o as_pii_matches(regex_finditer("ip", text, 0), 1, text, "ip"),
             1, << >>)

\* _get_mask_for_type
get_mask_for_type(pii_type) ==
    IF pii_type = "email" THEN "[EMAIL]"
    ELSE IF pii_type = "phone" THEN "[PHONE]"
    ELSE IF pii_type = "ssn" THEN "[SSN]"
    ELSE IF pii_type = "credit_card" THEN "[CREDIT_CARD]"
    ELSE IF pii_type = "ip" THEN "[IP_ADDRESS]"
    ELSE "[REDACTED]"

\* the loop of _mask_pii from match i on
RECURSIVE mask_pii_loop(_, _, _, _, _)
mask_pii_loop(text, matches, i, masked_text, last_end) ==
    IF i > Len(matches) THEN masked_text \o py_slice(text, last_end, Len(text))
    ELSE mask_pii_loop(text, matches, i + 1,
             masked_text \o py_slice(text, last_end, matches[i].span[1])
                         \o << get_mask_for_type(matches[i].type) >>,
             matches[i].span[2])

\* _mask_pii
mask_pii(text, matches) ==
    IF matches = << >> THEN text ELSE mask_pii_loop(text, matches, 1, << >>, 0)

\* PIIHandler.process_text of the AI service
handler_process_text(text) ==
    IF text = << >> THEN text
    ELSE IF detect_pii(text) = << >> THEN text
    ELSE mask_pii(text, detect_pii(text))

HandlerCall(text) ==
    [called |-> TRUE, text |-> text, matches |-> detect_pii(text),
     masked |-> handler_process_text(text)]

NoHandlerCall == [called |-> FALSE, text |-> << >>, matches |-> << >>, masked |-> << >>]

(***************************************************************************)
(* app.core.security.DataMasker.mask_text of the backend, called on its    *)
(* own with a list of matches.                                             *)
(***************************************************************************)
BackendMaskCall(text, matches) ==
    [called |-> TRUE, text |-> text, matches |-> matches,
     masked |-> mask_text(text, matches)]

NoBackendMaskCall ==
    [called |-> FALSE, text |-> << >>, matches |-> << >>, masked |-> << >>]

PIIIdle ==
    /\ dcall = NoDetectCall
    /\ mcall = NoMaskCall
    /\ vcall = NoRemovalCall
    /\ hcall = NoHandlerCall
    /\ bcall = NoBackendMaskCall

(***************************************************************************)
(* ai_service/middleware/rate_limiter.py: RateLimitMiddleware.  The sorted *)
(* set of a client holds one member per request, named str(now) and scored *)
(* now, with now the Redis time in whole seconds: it is the set of the     *)
(* seconds added.  The key expires RATE_LIMIT_WINDOW seconds after the     *)
(* last add.                                                               *)
(***************************************************************************)
RateSettings(calls, window) == [RATE_LIMIT_CALLS |-> calls, RATE_LIMIT_WINDOW |-> window]

SortedSet(members, expire_at) == [members |-> members, expire_at |-> expire_at]

EmptySortedSet == SortedSet({}, 0)

\* the members of the key at time now: none once it expired
zmembers(key, now) == IF now >= key.expire_at THEN {} ELSE key.members

\* zremrangebyscore(key, "-inf", max)
zremrangebyscore(key, now, max) ==
    SortedSet({ m \in zmembers(key, now) : m > max }, key.expire_at)

\* zadd(key, {str(now): now}); expire(key, window)
zadd_expire(key, now, window) == SortedSet(key.members \cup { now }, now + window)

\* _check_rate_limit: the answer and the sorted set it leaves; a Redis that
\* fails raises in the first command
check_rate_limit(st, key, now, redis_ok) ==
    IF ~ redis_ok THEN [allowed |-> TRUE, key |-> key]
    ELSE LET trimmed == zremrangebyscore(key, now, now - st.RATE_LIMIT_WINDOW)
             recent_calls == Cardinality(trimmed.members)
         IN IF recent_calls >= st.RATE_LIMIT_CALLS
            THEN [allowed |-> FALSE, key |-> trimmed]
            ELSE [allowed |-> TRUE,
                  key |-> zadd_expire(trimmed, now, st.RATE_LIMIT_WINDOW)]

SkippedPaths == { "/healthz", "/docs", "/redoc", "/openapi.json" }

Dispatched(client_id, path, now, redis_ok, checked, allowed, status_code, passed_on) ==
    [client_id |-> client_id, path |-> path, now |-> now, redis_ok |-> redis_ok,
     checked |-> checked, allowed |-> allowed, status_code |-> status_code,
     passed_on |-> passed_on]

\* dispatch: the HTTPException(429) is raised inside the try block, whose
\* `except Exception` logs it; call_next runs in every case and its response
\* is returned (200 stands for what the application answers)
dispatch(st, key, client_id, path, now, redis_ok) ==
    IF path \in SkippedPaths
    THEN Dispatched(client_id, path, now, redis_ok, FALSE, TRUE, 200, TRUE)
    ELSE Dispatched(client_id, path, now, redis_ok, TRUE,
                    check_rate_limit(st, key, now, redis_ok).allowed, 200, TRUE)

\* the sorted set after dispatch
key_after_dispatch(st, key, path, now, redis_ok) ==
    IF path \in SkippedPaths THEN key
    ELSE check_rate_limit(st, key, now, redis_ok).key

ClientIds == { "api:k1", "ip:10.0.0.1" }

RateIdle ==
    /\ rl_settings = RateSettings(1, 1)
    /\ redis_time = 0
    /\ ratelimit = [c \in ClientIds |-> EmptySortedSet]
    /\ dispatched = << >>

(***************************************************************************)
(* The prompt filter service on its own: constructed from a configuration  *)
(* file, then called with any content.                                     *)
(***************************************************************************)
Settings(enabled, moderation, strict, key) ==
    [PROMPT_FILTER_ENABLED |-> enabled, OPENAI_MODERATION_ENABLED |-> moderation,
     PROMPT_FILTER_STRICT_MODE |-> strict, OPENAI_API_KEY |-> key]

\* a flag is enumerated only where some branch reads it
SettingsSet ==
    { Settings(FALSE, FALSE, FALSE, FALSE) }
    \cup { Settings(TRUE, FALSE, strict, FALSE) : strict \in BOOLEAN }
    \cup { Settings(TRUE, TRUE, strict, key) : strict \in BOOLEAN, key \in BOOLEAN }

\* the configuration file: valid JSON of a FilterConfig, or missing or
\* not valid
ConfigFile(kind, config) == [kind |-> kind, config |-> config]

\* _load_filter_config: every error is logged and gives the empty
\* configuration
load_filter_config(file) ==
    IF file.kind = "valid" THEN file.config ELSE EmptyConfig

\* reload_config: _compile_regex_patterns reads self.filter_config, which
\* is assigned only after it ran
reload_config(file, config, compiled) ==
    LET new_config == load_filter_config(file)
        new_patterns == compile_regex_patterns(config)
    IN [result |-> TRUE, filter_config |-> new_config,
        compiled_patterns |-> new_patterns]

ReloadCall(called, result, old_config) ==
    [called |-> called, result |-> result, old_config |-> old_config]

NoReload == ReloadCall(FALSE, FALSE, EmptyConfig)

NoFilterCall ==
    [called |-> FALSE, content |-> << >>, mod |-> ModAnswer("ok", FALSE, << >>),
     out |-> FilterOutcome(NoResult, << >>, None, << >>, << >>)]

ChatIdle ==
    /\ messages = << >>
    /\ conversations = 0
    /\ pcall = NoChatCall
    /\ ncalls = 0
    /\ http = NoHttpResponse

FilterInit ==
    /\ settings \in SettingsSet
    /\ filter_config \in Configs
    /\ compiled_patterns = compile_regex_patterns(filter_config)
    /\ fcall = NoFilterCall
    /\ config_file = ConfigFile("valid", filter_config)
    /\ rcall = NoReload
    /\ ChatIdle
    /\ AIIdle
    /\ PIIIdle
    /\ RateIdle

\* one call is observed per behaviour
FilterPromptCall ==
    /\ ~ fcall.called
    /\ \E content \in Contents, mod \in ModOutcomes :
          fcall' = [called |-> TRUE, content |-> content, mod |-> mod,
                    out |-> filter_prompt(settings, filter_config, compiled_patterns,
                                          content, mod)]
    /\ UNCHANGED <<settings, filter_config, compiled_patterns, config_file, rcall, messages, conversations, pcall, ncalls, http>>
    /\ UNCHANGED <<ai_settings, cache, cache_log, callers>>
    /\ UNCHANGED <<pii_vars, rate_vars>>

FilterNext == FilterPromptCall

SpecFilter == FilterInit /\ [][FilterNext]_vars

(***************************************************************************)
(* The chat service on one conversation.                                   *)
(***************************************************************************)
ChatMessages == { << "e" >>, << "b", "e" >>, << "a", "e" >> }

AIResponses == { << "h" >>, << "e" >> }

\* an immediate answer with either response, an answer after k failed
\* attempts, or max_retries failures
AIOutcomes ==
    { AIAnswers(0, r) : r \in AIResponses }
    \cup { AIAnswers(k, << "e" >>) : k \in 1..(max_retries - 1) }
    \cup { AIAnswers(max_retries, << >>) }

ChatConfigs ==
    { FilterConfig(<< RegexFilter(<< "a" >>, SANITIZE, "masked: a", None),
                      RegexFilter(<< "b" >>, BLOCK, text, None) >>, None)
      : text \in { "", "blocked: b" } }

Init ==
    /\ settings \in { Settings(TRUE, TRUE, strict, TRUE) : strict \in BOOLEAN }
    /\ filter_config \in ChatConfigs
    /\ compiled_patterns = compile_regex_patterns(filter_config)
    /\ fcall = NoFilterCall
    /\ config_file = ConfigFile("valid", filter_config)
    /\ rcall = NoReload
    /\ ChatIdle
    /\ AIIdle
    /\ PIIIdle
    /\ RateIdle

\* the state after a process_message call that went as c
Handled(c) ==
    /\ pcall' = c
    /\ http' = send_message(c)
    /\ messages' = messages \o c.stored
    /\ conversations' = IF c.conversation_created THEN conversations + 1
                        ELSE conversations
    /\ ncalls' = ncalls + 1
    /\ UNCHANGED <<settings, filter_config, compiled_patterns, fcall, config_file, rcall>>
    /\ UNCHANGED <<ai_settings, cache, cache_log, callers>>
    /\ UNCHANGED <<pii_vars, rate_vars>>

\* an input is enumerated only on the paths that read it
ProcessMessage ==
    /\ ncalls < MaxCalls
    /\ \E message \in ChatMessages, mod \in ModOutcomes, conv_ok \in BOOLEAN :
          LET reached == conv_ok /\ filter_prompt(settings, filter_config,
                                      compiled_patterns, message, mod).result.is_allowed
          IN \E pii_in \in (IF reached THEN BOOLEAN ELSE {FALSE}),
                ai \in (IF reached THEN AIOutcomes ELSE {AIAnswers(max_retries, << >>)}) :
                \E pii_out \in (IF reached /\ ai.failures < max_retries
                                THEN BOOLEAN ELSE {FALSE}) :
                    Handled(process_message(settings, filter_config, compiled_patterns,
                                            messages, conversations > 0, message, mod,
                                            conv_ok, pii_in, ai, pii_out))

Next == ProcessMessage

Spec == Init /\ [][Next]_vars

(***************************************************************************)
(* The AI service under two requests that run as coroutines of one event   *)
(* loop: a step is what a coroutine does between two awaits that suspend   *)
(* it (redis get, the provider call, redis set, asyncio.sleep).            *)
(***************************************************************************)
chat_vars == <<settings, filter_config, compiled_patterns, fcall, config_file, rcall, messages, conversations, pcall, ncalls, http>>

AIInit ==
    /\ settings = Settings(FALSE, FALSE, FALSE, FALSE)
    /\ filter_config = EmptyConfig
    /\ compiled_patterns = compile_regex_patterns(filter_config)
    /\ fcall = NoFilterCall
    /\ config_file = ConfigFile("valid", filter_config)
    /\ rcall = NoReload
    /\ ChatIdle
    /\ ai_settings \in { AISettings(f, r) : f \in BOOLEAN, r \in BOOLEAN }
    /\ cache = [key \in CacheKeys |-> None]
    /\ cache_log = << >>
    /\ callers = [c \in CallerIds |-> NoCaller]
    /\ PIIIdle
    /\ RateIdle

\* what the callers that already returned for the triple of k received
prior_content(c, message, model_type) ==
    IF \E d \in CallerIds \ {c} : /\ callers[d].outcome = "returned"
                                  /\ callers[d].message = message
                                  /\ callers[d].model_type = model_type
    THEN LET d == CHOOSE d \in CallerIds \ {c} : /\ callers[d].outcome = "returned"
                                                 /\ callers[d].message = message
                                                 /\ callers[d].model_type = model_type
         IN Some(callers[d].content)
    ELSE None

\* process_message reaches its retry loop
EnterRetryLoop(c) ==
    /\ callers[c].pc = "idle"
    /\ \E message \in AIMessages, model_type \in ModelTypes :
          callers' = [callers EXCEPT ![c] =
                         Caller("lookup", message, model_type, model_type, 0, None,
                                << >>, "", 0, << >>)]
    /\ UNCHANGED <<ai_settings, cache, cache_log>>
    /\ UNCHANGED chat_vars
    /\ UNCHANGED <<pii_vars, rate_vars>>

CacheLookup(c) ==
    /\ callers[c].pc = "lookup"
    /\ callers' = [callers EXCEPT ![c] =
                      after_lookup(ai_settings, cache, callers[c],
                                   prior_content(c, callers[c].message,
                                                 callers[c].model_type))]
    /\ UNCHANGED <<ai_settings, cache, cache_log>>
    /\ UNCHANGED chat_vars
    /\ UNCHANGED <<pii_vars, rate_vars>>

ProviderCall(c) ==
    /\ callers[c].pc = "call"
    /\ \E answer \in ProviderAnswers :
          callers' = [callers EXCEPT ![c] = after_call(ai_settings, callers[c], answer)]
    /\ UNCHANGED <<ai_settings, cache, cache_log>>
    /\ UNCHANGED chat_vars
    /\ UNCHANGED <<pii_vars, rate_vars>>

CacheStore(c) ==
    /\ callers[c].pc = "store"
    /\ LET key == generate_cache_key(callers[c].message, AIContext, callers[c].model)
       IN /\ cache' = cache_response(ai_settings, cache, key, callers[c].response[1])
          /\ cache_log' = IF ai_settings.redis_up
                          THEN Append(cache_log, << key, callers[c].response[1] >>)
                          ELSE cache_log
    /\ callers' = [callers EXCEPT ![c] = after_store(ai_settings, callers[c])]
    /\ UNCHANGED ai_settings
    /\ UNCHANGED chat_vars
    /\ UNCHANGED <<pii_vars, rate_vars>>

AINext ==
    \E c \in CallerIds :
        \/ EnterRetryLoop(c)
        \/ CacheLookup(c)
        \/ ProviderCall(c)
        \/ CacheStore(c)

SpecAI == AIInit /\ [][AINext]_vars

(***************************************************************************)
(* The prompt filter service while its configuration file is edited and    *)
(* reloaded.  reload_config has no await and runs as one step; so does     *)
(* filter_prompt up to the moderation request, after which it reads        *)
(* neither filter_config nor compiled_patterns.                            *)
(***************************************************************************)
ReloadConfigs ==
    { FilterConfig(<< RegexFilter(<< "a" >>, SANITIZE, "masked: a", None) >>,
                   Some(IntValue(MaxLen))),
      FilterConfig(<< RegexFilter(<< "b" >>, BLOCK, "blocked: b", None) >>,
                   Some(IntValue(MaxLen - 1))) }

ConfigFiles ==
    { ConfigFile("valid", c) : c \in ReloadConfigs }
    \cup { ConfigFile("missing", EmptyConfig) }

ReloadInit ==
    /\ settings \in { Settings(TRUE, FALSE, strict, FALSE) : strict \in BOOLEAN }
    /\ config_file \in ConfigFiles
    /\ filter_config = load_filter_config(config_file)
    /\ compiled_patterns = compile_regex_patterns(filter_config)
    /\ fcall = NoFilterCall
    /\ rcall = NoReload
    /\ ChatIdle
    /\ AIIdle
    /\ PIIIdle
    /\ RateIdle

\* somebody replaces the file
EditConfigFile ==
    /\ ~ fcall.called
    /\ \E file \in ConfigFiles \ { config_file } : config_file' = file
    /\ UNCHANGED <<settings, filter_config, compiled_patterns, fcall, rcall, messages, conversations, pcall, ncalls, http>>
    /\ UNCHANGED <<ai_settings, cache, cache_log, callers>>
    /\ UNCHANGED <<pii_vars, rate_vars>>

ReloadConfig ==
    /\ ~ fcall.called
    /\ LET r == reload_config(config_file, filter_config, compiled_patterns)
       IN /\ filter_config' = r.filter_config
          /\ compiled_patterns' = r.compiled_patterns
          /\ rcall' = ReloadCall(TRUE, r.result, filter_config)
    /\ UNCHANGED <<settings, config_file, fcall, messages, conversations, pcall, ncalls, http>>
    /\ UNCHANGED <<ai_settings, cache, cache_log, callers>>
    /\ UNCHANGED <<pii_vars, rate_vars>>

ReloadNext ==
    \/ EditConfigFile
    \/ ReloadConfig
    \/ FilterPromptCall

SpecReload == ReloadInit /\ [][ReloadNext]_vars

(***************************************************************************)
(* The PII components and the rate limiter, each called on its own.  A     *)
(* behaviour observes one call of a pure function, with any input of the   *)
(* bounded sets.                                                           *)
(***************************************************************************)
MaxCandidates == 3
MaxMatches == 2
MaxEmailLen == 7
MaxSegments == 3
MaxRequests == 3
MaxTime == 2
MaxLimit == 2

ai_vars == <<ai_settings, cache, cache_log, callers>>

IdleInit ==
    /\ settings = Settings(FALSE, FALSE, FALSE, FALSE)
    /\ filter_config = EmptyConfig
    /\ compiled_patterns = compile_regex_patterns(filter_config)
    /\ fcall = NoFilterCall
    /\ config_file = ConfigFile("valid", filter_config)
    /\ rcall = NoReload
    /\ ChatIdle
    /\ AIIdle
    /\ PIIIdle
    /\ RateIdle

\* the spans [start, end) of a text of n characters that hold a character
Spans(n) == { sp \in [start : 0..n, end : 0..n] : sp.start < sp.end }

\* the sequences of at most n elements of S
SeqsUpTo(S, n) == UNION { [1..k -> S] : k \in 0..n }

(***************************************************************************)
(* PIIDetector.detect on any candidates: matches of the patterns in the    *)
(* order the patterns found them, then the entities.                       *)
(***************************************************************************)
DetectText == repeat("a", MaxLen + 1)

CandidatesOf(pii_type, confidence) ==
    { PIIMatch(sp.start, sp.end, py_slice(DetectText, sp.start, sp.end), pii_type,
               confidence) : sp \in Spans(Len(DetectText)) }

Detect ==
    /\ ~ dcall.called
    /\ \E pattern_matches \in SeqsUpTo(CandidatesOf("email", pattern_confidence), MaxCandidates) :
          \E ner_matches \in SeqsUpTo(CandidatesOf("person", ner_confidence),
                                      MaxCandidates - Len(pattern_matches)) :
              dcall' = DetectCall(pattern_matches, ner_matches)
    /\ UNCHANGED <<mcall, vcall, hcall, bcall>>
    /\ UNCHANGED <<chat_vars, ai_vars, rate_vars>>

DetectNext == Detect

SpecDetect == IdleInit /\ [][DetectNext]_vars

(***************************************************************************)
(* DataMasker.mask_text of the AI service on any text and any matches of   *)
(* it, overlapping or not, in any order.                                   *)
(***************************************************************************)
MaskedTypes == { [pii_type |-> "person", confidence |-> ner_confidence],
                 [pii_type |-> "url", confidence |-> pattern_confidence] }

MatchesOf(text) ==
    { PIIMatch(sp.start, sp.end, py_slice(text, sp.start, sp.end), t.pii_type,
               t.confidence) : sp \in Spans(Len(text)), t \in MaskedTypes }

MaskText ==
    /\ ~ mcall.called
    /\ \E text \in Contents :
          \E pii_matches \in SeqsUpTo(MatchesOf(text), MaxMatches) :
              mcall' = MaskCall(text, pii_matches)
    /\ UNCHANGED <<dcall, vcall, hcall, bcall>>
    /\ UNCHANGED <<chat_vars, ai_vars, rate_vars>>

MaskerNext == MaskText

SpecMasker == IdleInit /\ [][MaskerNext]_vars

(***************************************************************************)
(* detect, mask_text with the default policies, validate_pii_removal on a  *)
(* text of letters, "@" and ".".  spaCy finds no entity or one person in   *)
(* the text; what it finds in the masked text does not matter: an entity   *)
(* has confidence 0.8 and never replaces a pattern match.                  *)
(***************************************************************************)
EmailTexts == SeqsUpTo({"a", "@", "."}, MaxEmailLen)

NerOutcomes(text) ==
    { << >> }
    \cup { << PIIMatch(0, e, py_slice(text, 0, e), "person", ner_confidence) >>
           : e \in 1..Len(text) }

ValidateRemoval ==
    /\ ~ vcall.called
    /\ \E text \in EmailTexts :
          \E ner_matches \in NerOutcomes(text) :
              vcall' = RemovalCall(text, ner_matches, << >>)
    /\ UNCHANGED <<dcall, mcall, hcall, bcall>>
    /\ UNCHANGED <<chat_vars, ai_vars, rate_vars>>

RemovalNext == ValidateRemoval

SpecRemoval == IdleInit /\ [][RemovalNext]_vars

(***************************************************************************)
(* PIIHandler.process_text of the AI service on texts made of dotted       *)
(* quads, "@", domain names, letters and blanks.                           *)
(***************************************************************************)
Segments ==
    { << "1", ".", "1", ".", "1", ".", "1" >>, << "@" >>, << "a", ".", "a", "a" >>,
      << "a" >>, << " " >> }

RECURSIVE join(_)
join(segments) ==
    IF segments = << >> THEN << >> ELSE segments[1] \o join(Tail(segments))

HandlerTexts == { join(segments) : segments \in SeqsUpTo(Segments, MaxSegments) }

ProcessText ==
    /\ ~ hcall.called
    /\ \E text \in HandlerTexts : hcall' = HandlerCall(text)
    /\ UNCHANGED <<dcall, mcall, vcall, bcall>>
    /\ UNCHANGED <<chat_vars, ai_vars, rate_vars>>

HandlerNext == ProcessText

SpecHandler == IdleInit /\ [][HandlerNext]_vars

(***************************************************************************)
(* DataMasker.mask_text of the backend on any text and any matches of it.  *)
(***************************************************************************)
BackendMatchesOf(text) ==
    { Match(sp.start, sp.end, py_slice(text, sp.start, sp.end), p.name, p.mask_with,
            p.priority) : sp \in Spans(Len(text)), p \in { patterns[i] : i \in DOMAIN patterns } }

BackendMaskText ==
    /\ ~ bcall.called
    /\ \E text \in Contents :
          \E matches \in SeqsUpTo(BackendMatchesOf(text), MaxMatches) :
              bcall' = BackendMaskCall(text, matches)
    /\ UNCHANGED <<dcall, mcall, vcall, hcall>>
    /\ UNCHANGED <<chat_vars, ai_vars, rate_vars>>

BackendMaskerNext == BackendMaskText

SpecBackendMasker == IdleInit /\ [][BackendMaskerNext]_vars

(***************************************************************************)
(* The rate limiter: requests of two clients arrive one after the other    *)
(* while the Redis clock advances.                                         *)
(***************************************************************************)
RateLimitChoices == { RateSettings(calls, window) : calls \in 1..MaxLimit, window \in 1..MaxLimit }

RequestPaths == { "/api/v1/generate", "/healthz" }

RateInit ==
    /\ settings = Settings(FALSE, FALSE, FALSE, FALSE)
    /\ filter_config = EmptyConfig
    /\ compiled_patterns = compile_regex_patterns(filter_config)
    /\ fcall = NoFilterCall
    /\ config_file = ConfigFile("valid", filter_config)
    /\ rcall = NoReload
    /\ ChatIdle
    /\ AIIdle
    /\ PIIIdle
    /\ rl_settings \in RateLimitChoices
    /\ redis_time = 0
    /\ ratelimit = [c \in ClientIds |-> EmptySortedSet]
    /\ dispatched = << >>

\* a second passes
Tick ==
    /\ redis_time < MaxTime
    /\ redis_time' = redis_time + 1
    /\ UNCHANGED <<rl_settings, ratelimit, dispatched>>
    /\ UNCHANGED <<chat_vars, ai_vars, pii_vars>>

\* the middleware handles one request
Dispatch ==
    /\ Len(dispatched) < MaxRequests
    /\ \E client_id \in ClientIds, path \in RequestPaths, redis_ok \in BOOLEAN :
          /\ dispatched' = Append(dispatched,
                 dispatch(rl_settings, ratelimit[client_id], client_id, path,
                          redis_time, redis_ok))
          /\ ratelimit' = [ratelimit EXCEPT ![client_id] =
                 key_after_dispatch(rl_settings, ratelimit[client_id], path,
                                    redis_time, redis_ok)]
    /\ UNCHANGED <<rl_settings, redis_time>>
    /\ UNCHANGED <<chat_vars, ai_vars, pii_vars>>

RateNext == Tick \/ Dispatch

SpecRate == RateInit /\ [][RateNext]_vars

(***************************************************************************)
(* Properties of ChatService.process_message (specification Spec).         *)
(***************************************************************************)
\* no PII value is detectable in the text
NoPII(text) == detect_regex_pii(text) \o detect_ner_pii(text) = << >>

\* C1: a call whose filter verdict is not allowed makes no generate_response
\* call, and the message it returns has role "system" and carries the
\* filter's message, or the default block text when the verdict has none.
C1_BlockedNeverReachesModel ==
    (pcall.called /\ ~ pcall.filter.is_allowed) =>
        /\ pcall.filter.action = BLOCK
        /\ pcall.ai_attempts = 0
        /\ pcall.outcome = "returned" =>
              /\ pcall.response.role = "system"
              /\ pcall.response.content =
                    IF pcall.filter.message # None /\ pcall.filter.message[1] # ""
                    THEN << pcall.filter.message[1] >>
                    ELSE << DefaultBlockText >>

\* C1 witness: a blocked call returned the default block text
C1_Witness ==
    /\ pcall.called /\ ~ pcall.filter.is_allowed /\ pcall.outcome = "returned"
    /\ pcall.filter.message = Some("")
    /\ pcall.response.content = << DefaultBlockText >>

\* C2 (as claimed): the content of a message that received a BLOCK verdict
\* is never the message and never in the context handed to
\* generate_response, by that call or by any later call.  The context of a
\* call is read from the rows stored before it, item i from row i.
C2_BlockedContentNeverReachesModel ==
    pcall.ai_attempts > 0 =>
        /\ pcall.filter.is_allowed
        /\ \A i \in DOMAIN pcall.ai_context :
              ~ (messages[i].meta = "blocked"
                 /\ messages[i].content = pcall.ai_context[i].content)

\* C3 (as claimed): every message handed to generate_response and every
\* content handed to create_message is masked: the raw user text with its
\* PII never reaches the model or the messages table.
C3_OnlyMaskedTextLeaves ==
    pcall.called =>
        /\ pcall.ai_attempts > 0 => NoPII(pcall.ai_message)
        /\ \A i \in DOMAIN pcall.stored : NoPII(pcall.stored[i].content)

\* C4 (as claimed): in strict mode a failure of PII detection or masking
\* blocks the message: the unmasked text reaches neither the model nor the
\* messages table.
C4_StrictMaskingFailureBlocks ==
    (pcall.called /\ settings.PROMPT_FILTER_STRICT_MODE /\ pcall.pii_fail_in) =>
        /\ pcall.ai_attempts = 0
        /\ \A i \in DOMAIN pcall.stored :
              pcall.stored[i].content # processed_message(pcall.filter, pcall.message)

\* C18 (as claimed): when the providers fail on every retry, the failure
\* reaches the caller of process_message and the client of POST /chat as a
\* 503, while a BLOCK verdict is answered with a normal message.
C18_ExhaustionIs503 ==
    pcall.called =>
        /\ (pcall.outcome = "raised" /\ pcall.ai_attempts = max_retries) =>
              /\ pcall.status = 503
              /\ http.status_code = 503
        /\ (pcall.outcome = "returned" /\ ~ pcall.filter.is_allowed) =>
              http.status_code = 201

\* C21 (as claimed): a process_message call that ends in failure leaves no
\* partial persisted state: it has created no conversation and no message.
C21_FailureLeavesNoState ==
    [][pcall'.outcome = "raised" =>
          /\ messages' = messages
          /\ conversations' = conversations]_vars

(***************************************************************************)
(* Properties of PromptFilterService.filter_prompt (specification          *)
(* SpecFilter).                                                            *)
(***************************************************************************)
\* the entries of the compiled table up to and including entry n whose
\* pattern occurs in the content, by name
RECURSIVE MatchingNames(_, _, _)
MatchingNames(compiled, content, n) ==
    IF n = 0 THEN << >>
    ELSE MatchingNames(compiled, content, n - 1)
         \o (IF re_search(compiled[n].pattern, content)
             THEN << compiled[n].name >> ELSE << >>)

\* the regex stage returned a result (it was reached and did not raise)
RegexStageRan == fcall.called /\ fcall.out.regex # None

\* entry i is the first block rule of the table that matches the content
FirstBlockMatch(i) ==
    /\ compiled_patterns[i].rule.action = BLOCK
    /\ re_search(compiled_patterns[i].pattern, fcall.content)
    /\ \A j \in 1..(i - 1) :
          ~ (compiled_patterns[j].rule.action = BLOCK
             /\ re_search(compiled_patterns[j].pattern, fcall.content))

\* text occurs in s
Contains(s, text) == re_search(text, s)

\* C5: every FilterResult of filter_prompt, and of the regex stage inside
\* it, has is_allowed = FALSE exactly when its action is block.
C5_AllowedIffNotBlock ==
    fcall.called =>
        /\ (~ fcall.out.result.is_allowed) <=> (fcall.out.result.action = BLOCK)
        /\ fcall.out.regex # None =>
              ((~ fcall.out.regex[1].is_allowed) <=> (fcall.out.regex[1].action = BLOCK))

\* C5 witness: an internal error in non-strict mode gave an allowed verdict
C5_Witness ==
    /\ fcall.called
    /\ fcall.out.audit = << SecurityEvent("PROMPT_FILTER_ERROR", << >>) >>
    /\ fcall.out.result.is_allowed
    /\ fcall.out.result.action = ALLOW

\* C6: the first matching block rule in configuration order ends the regex
\* stage: the result is BLOCK with that rule's message, exactly the rules up
\* to it were evaluated, in order, and the result has no filtered_content.
C6_FirstBlockShortCircuits ==
    RegexStageRan =>
        \A i \in 1..Len(compiled_patterns) :
            FirstBlockMatch(i) =>
                /\ fcall.out.regex[1].action = BLOCK
                /\ fcall.out.regex[1].message = Some(compiled_patterns[i].rule.message)
                /\ fcall.out.evaluated = [j \in 1..i |-> compiled_patterns[j].name]
                /\ fcall.out.regex[1].filtered_content = None

\* C6 witness: a block rule matched first and a later sanitize rule that
\* matches the content too was not evaluated
C6_Witness ==
    /\ RegexStageRan
    /\ Len(compiled_patterns) = 2
    /\ FirstBlockMatch(1)
    /\ compiled_patterns[2].rule.action = SANITIZE
    /\ re_search(compiled_patterns[2].pattern, fcall.content)
    /\ Len(fcall.out.evaluated) = 1

\* C7 (as claimed): when a block rule fires, triggered_filters is exactly
\* the one-element list of that rule's name.
C7_BlockTriggersOnlyBlockRule ==
    (RegexStageRan /\ fcall.out.regex[1].action = BLOCK) =>
        fcall.out.regex[1].triggered_filters
            = << fcall.out.evaluated[Len(fcall.out.evaluated)] >>

\* C7 (amended): when a block rule fires, triggered_filters lists, in
\* configuration order, every rule up to and including the block rule whose
\* pattern matches the content; the block rule's name is its last element.
C7_BlockTriggersAllMatchedSoFar ==
    (RegexStageRan /\ fcall.out.regex[1].action = BLOCK) =>
        LET n == Len(fcall.out.evaluated)
            t == fcall.out.regex[1].triggered_filters
        IN /\ t = MatchingNames(compiled_patterns, fcall.content, n)
           /\ t # << >>
           /\ t[Len(t)] = compiled_patterns[n].name
           /\ compiled_patterns[n].rule.action = BLOCK

\* C7 witness: a block verdict that also names a sanitize rule
C7_Witness ==
    /\ RegexStageRan
    /\ fcall.out.regex[1].action = BLOCK
    /\ Len(fcall.out.regex[1].triggered_filters) = 2

\* the sanitize rules named in the verdict's triggered_filters
TriggeredSanitizeRules ==
    { i \in 1..Len(compiled_patterns) :
        /\ compiled_patterns[i].rule.action = SANITIZE
        /\ \E k \in DOMAIN fcall.out.result.triggered_filters :
              fcall.out.result.triggered_filters[k] = compiled_patterns[i].name }

\* the token was replaced: the replacement is there and no match is left
Sanitized(i) ==
    /\ Contains(fcall.out.result.filtered_content[1],
                IF compiled_patterns[i].rule.replacement = None THEN DefaultReplacement
                ELSE compiled_patterns[i].rule.replacement[1])
    /\ ~ re_search(compiled_patterns[i].pattern, fcall.out.result.filtered_content[1])

ReplacementApart(i) ==
    LET rep == IF compiled_patterns[i].rule.replacement = None THEN DefaultReplacement
               ELSE compiled_patterns[i].rule.replacement[1]
    IN \A k \in DOMAIN rep, l \in DOMAIN compiled_patterns[i].pattern :
          rep[k] # compiled_patterns[i].pattern[l]

LengthLimit ==
    IF filter_config.settings.max_message_length = None THEN DefaultMaxMessageLength
    ELSE filter_config.settings.max_message_length[1].value

LimitWellFormed ==
    \/ filter_config.settings.max_message_length = None
    \/ filter_config.settings.max_message_length[1].type = "int"

\* C9: with the filter enabled, the stages run in the order length check,
\* regex rules, moderation and stop at the first BLOCK: a message over the
\* limit is blocked with the length message, no rule evaluated and no
\* moderation call made; the moderation check is called at most once, only
\* after the regex stage returned an allowed result, on that stage's text.
C9_StageOrder ==
    (fcall.called /\ settings.PROMPT_FILTER_ENABLED /\ LimitWellFormed) =>
        /\ Len(fcall.content) > LengthLimit =>
              /\ fcall.out.result.action = BLOCK
              /\ fcall.out.result.message = Some(MsgTooLong)
              /\ fcall.out.evaluated = << >>
              /\ fcall.out.regex = None
              /\ fcall.out.mod_calls = << >>
        /\ Len(fcall.out.mod_calls) <= 1
        /\ fcall.out.mod_calls # << >> =>
              /\ fcall.out.regex # None
              /\ fcall.out.regex[1].is_allowed
              /\ fcall.out.mod_calls[1] = fcall.out.regex[1].filtered_content[1]
        /\ (fcall.out.regex # None /\ ~ fcall.out.regex[1].is_allowed) =>
              /\ fcall.out.result = fcall.out.regex[1]
              /\ fcall.out.mod_calls = << >>

\* C9 witness: the moderation check ran on the sanitized text
C9_Witness ==
    /\ fcall.called
    /\ fcall.out.regex # None
    /\ fcall.out.regex[1].action = SANITIZE
    /\ Len(fcall.out.mod_calls) = 1
    /\ fcall.out.mod_calls[1] # fcall.content

\* the names the moderation endpoint flagged, in its order
RECURSIVE FlaggedNames(_, _)
FlaggedNames(categories, n) ==
    IF n = 0 THEN << >>
    ELSE FlaggedNames(categories, n - 1)
         \o (IF categories[n][2] = TRUE THEN << categories[n][1] >> ELSE << >>)

\* C10: when the moderation check reports flagged, the verdict is BLOCK
\* with moderation_flagged = TRUE and moderation_categories the flagged
\* categories, whether the regex stage returned ALLOW or SANITIZE.
C10_ModerationFlagBlocks ==
    (fcall.called /\ fcall.out.mod_calls # << >> /\ settings.OPENAI_API_KEY
     /\ fcall.mod.kind = "ok" /\ fcall.mod.flagged) =>
        /\ ~ fcall.out.result.is_allowed
        /\ fcall.out.result.action = BLOCK
        /\ fcall.out.result.moderation_flagged
        /\ fcall.out.result.moderation_categories
              = FlaggedNames(fcall.mod.categories, Len(fcall.mod.categories))
        /\ fcall.out.result.message = Some(MsgModeration)

\* C10 witness: the moderation check flagged a text the regex stage sanitized
C10_Witness ==
    /\ fcall.called
    /\ fcall.out.mod_calls # << >>
    /\ fcall.mod.kind = "ok" /\ fcall.mod.flagged
    /\ fcall.out.regex # None
    /\ fcall.out.regex[1].action = SANITIZE
    /\ fcall.out.result.moderation_categories = << "hate", "violence" >>

\* the moderation request was made and did not come back with an answer
ModerationFailed ==
    /\ fcall.called
    /\ fcall.out.mod_calls # << >>
    /\ settings.OPENAI_API_KEY
    /\ fcall.mod.kind \in {"http_status_error", "http_request_error", "error"}

\* C11 (as claimed): when the moderation call fails, the verdict is BLOCK in
\* strict mode and in non-strict mode it is the regex stage's own outcome:
\* ALLOW, or SANITIZE with the regex stage's filtered content.
C11_ModerationFailureVerdict ==
    ModerationFailed =>
        IF settings.PROMPT_FILTER_STRICT_MODE
        THEN fcall.out.result.action = BLOCK /\ ~ fcall.out.result.is_allowed
        ELSE /\ fcall.out.result.is_allowed
             /\ fcall.out.result.action = fcall.out.regex[1].action
             /\ fcall.out.result.filtered_content = fcall.out.regex[1].filtered_content

\* C12 (as claimed): every call that ends in BLOCK or SANITIZE, and every
\* call in which the moderation call failed, in strict and in non-strict
\* mode, has sent an event to log_security_event before it returns.
C12_AuditEventEmitted ==
    (fcall.called
     /\ (fcall.out.result.action \in {BLOCK, SANITIZE} \/ ModerationFailed)) =>
        fcall.out.audit # << >>

\* the except clause at the end of filter_prompt ran
InternalErrorCaught ==
    /\ fcall.called
    /\ \E k \in DOMAIN fcall.out.audit :
          fcall.out.audit[k].event_type = "PROMPT_FILTER_ERROR"

\* C13: an internal error of filter_prompt is caught once at the top level:
\* one error event, and the verdict is BLOCK with the generic error message
\* in strict mode, ALLOW with the original content as filtered_content in
\* non-strict mode, never SANITIZE; a malformed length limit is such an error.
C13_InternalErrorVerdict ==
    /\ InternalErrorCaught =>
          /\ Len(fcall.out.audit) = 1
          /\ fcall.out.result.action # SANITIZE
          /\ IF settings.PROMPT_FILTER_STRICT_MODE
             THEN /\ fcall.out.result.action = BLOCK
                  /\ ~ fcall.out.result.is_allowed
                  /\ fcall.out.result.message = Some(MsgFilterError)
             ELSE /\ fcall.out.result.action = ALLOW
                  /\ fcall.out.result.is_allowed
                  /\ fcall.out.result.filtered_content = Some(fcall.content)
    /\ (fcall.called /\ settings.PROMPT_FILTER_ENABLED /\ ~ LimitWellFormed) =>
          InternalErrorCaught

\* C13 witness: strict mode, the substitution of a sanitize rule raised and
\* the call was blocked with the generic message
C13_Witness ==
    /\ InternalErrorCaught
    /\ settings.PROMPT_FILTER_STRICT_MODE
    /\ LimitWellFormed
    /\ fcall.out.evaluated # << >>
    /\ fcall.out.regex = None
    /\ fcall.out.result.message = Some(MsgFilterError)

\* C27 (as claimed): with the filter and the moderation enabled and strict
\* mode on, filter_prompt returns an allowed verdict only if a moderation
\* request was made for the content and its answer was not flagged.
C27_StrictAllowNeedsModeration ==
    (/\ fcall.called
     /\ settings.PROMPT_FILTER_ENABLED
     /\ settings.OPENAI_MODERATION_ENABLED
     /\ settings.PROMPT_FILTER_STRICT_MODE
     /\ fcall.out.result.is_allowed) =>
        /\ fcall.out.mod_calls # << >>
        /\ check_openai_moderation(settings, fcall.out.mod_calls[1], fcall.mod).posted
        /\ fcall.mod.kind = "ok"
        /\ ~ fcall.mod.flagged

(***************************************************************************)
(* Properties of AIService.generate_response and of the retry loop around  *)
(* it (specification SpecAI).                                              *)
(***************************************************************************)
\* the events of the log that are provider calls
ProviderCalls(log) == SelectSeq(log, LAMBDA e : e.kind = "call")

\* event j belongs to the generate_response call that event i started
SameCall(log, i, j) ==
    /\ i <= j
    /\ \A m \in (i + 1)..j : log[m].kind # "start"

\* C14 (as claimed): once a generate_response call returned for a triple,
\* through the primary or the fallback provider, a later call with the same
\* triple and a working cache makes no provider call and returns the same
\* content; with a healthy provider the two make one provider call in total.
C14_SecondCallServedFromCache ==
    ai_settings.redis_up =>
        \A c \in CallerIds : \A i \in DOMAIN callers[c].log :
            (callers[c].log[i].kind = "start" /\ callers[c].log[i].content # None) =>
                /\ \A j \in DOMAIN callers[c].log :
                      SameCall(callers[c].log, i, j) => callers[c].log[j].kind # "call"
                /\ (callers[c].pc = "done" /\ SameCall(callers[c].log, i, Len(callers[c].log))) =>
                      /\ callers[c].outcome = "returned"
                      /\ callers[c].content = callers[c].log[i].content[1]

\* every call the caller made against the requested model failed, and it
\* made one
PrimaryAlwaysFailed(c) ==
    /\ callers[c].pc = "done"
    /\ \E i \in DOMAIN callers[c].log :
          callers[c].log[i].kind = "call" /\ callers[c].log[i].model = callers[c].model_type
    /\ \A i \in DOMAIN callers[c].log :
          (callers[c].log[i].kind = "call" /\ callers[c].log[i].model = callers[c].model_type)
              => ~ callers[c].log[i].ok
    /\ \A i \in DOMAIN callers[c].log : callers[c].log[i].kind # "hit"

\* C15 (as claimed): when the primary provider always fails, one message
\* makes exactly max_retries attempts against the primary provider, with
\* backoff delays retry_delay, 2 * retry_delay, ... between them, and only
\* then exactly one attempt against the fallback provider.
C15_RetriesThenOneFallback ==
    \A c \in CallerIds :
        (PrimaryAlwaysFailed(c) /\ callers[c].model_type = OPENAI
         /\ ai_settings.fallback_enabled) =>
            LET calls == ProviderCalls(callers[c].log)
                sleeps == SelectSeq(callers[c].log, LAMBDA e : e.kind = "sleep")
            IN /\ Len(calls) = max_retries + 1
               /\ \A n \in 1..max_retries : calls[n].model = OPENAI
               /\ calls[max_retries + 1].model = LLAMA
               /\ Len(sleeps) = max_retries - 1
               /\ \A n \in DOMAIN sleeps : sleeps[n].n = retry_delay * n

\* C16: a cache entry is written only directly after a successful provider
\* call, under that call's model and with its content, and the content is
\* returned right after the write; a generate_response call that raises has
\* written nothing, and a request that ends in 503 has written nothing.
C16_CacheWrittenOnlyOnSuccess ==
    /\ \A c \in CallerIds : \A i \in DOMAIN callers[c].log :
          /\ callers[c].log[i].kind = "write" =>
                /\ i > 1
                /\ callers[c].log[i - 1].kind = "call"
                /\ callers[c].log[i - 1].ok
                /\ callers[c].log[i - 1].model = callers[c].log[i].model
                /\ callers[c].log[i - 1].content = callers[c].log[i].content
                /\ i = Len(callers[c].log)
                /\ callers[c].outcome = "returned"
                /\ callers[c].content = callers[c].log[i].content[1]
          /\ callers[c].log[i].kind = "raise" =>
                \A j \in 1..i : callers[c].log[j].kind # "write"
    /\ \A key \in CacheKeys :
          cache[key] # None =>
              \E c \in CallerIds : \E i \in DOMAIN callers[c].log :
                  /\ callers[c].log[i].kind = "write"
                  /\ key = << callers[c].message, AIContext, callers[c].log[i].model >>
                  /\ cache[key] = callers[c].log[i].content

\* C16 witness: one request ended in 503 after primary and fallback failed
\* on every attempt and wrote nothing; another was answered by the fallback
\* provider and its answer is in the cache
C16_Witness ==
    /\ ai_settings.redis_up /\ ai_settings.fallback_enabled
    /\ callers["c1"].outcome = "raised" /\ callers["c1"].model_type = OPENAI
    /\ Len(ProviderCalls(callers["c1"].log)) = 2 * max_retries
    /\ callers["c2"].outcome = "returned" /\ callers["c2"].model_type = OPENAI
    /\ callers["c2"].model = LLAMA
    /\ cache[<< callers["c2"].message, AIContext, LLAMA >>] = Some(callers["c2"].content)
    /\ cache[<< callers["c1"].message, AIContext, OPENAI >>] = None

\* C17: a generate_response call makes at most two provider calls: one
\* against the requested model and, only if that failed, fallback is enabled
\* and the requested model is not the fallback model, one against the
\* fallback model; any other failed call raises at once.
C17_FallbackOneLevel ==
    \A c \in CallerIds : \A i \in DOMAIN callers[c].log :
        callers[c].log[i].kind = "call" =>
            /\ \/ callers[c].log[i].model = callers[c].model_type
               \/ /\ callers[c].log[i].model = LLAMA
                  /\ ai_settings.fallback_enabled
                  /\ callers[c].model_type # LLAMA
                  /\ i > 1
                  /\ callers[c].log[i - 1].kind = "call"
                  /\ ~ callers[c].log[i - 1].ok
                  /\ callers[c].log[i - 1].model = callers[c].model_type
            /\ (~ callers[c].log[i].ok
                /\ (callers[c].log[i].model = LLAMA \/ ~ ai_settings.fallback_enabled)) =>
                  /\ i < Len(callers[c].log)
                  /\ callers[c].log[i + 1].kind = "raise"
            /\ i > 2 => ~ (callers[c].log[i - 1].kind = "call"
                           /\ callers[c].log[i - 2].kind = "call")

\* C17 witness: with fallback enabled, a request for the fallback model
\* failed on every attempt and made one provider call per attempt
C17_Witness ==
    /\ ai_settings.fallback_enabled
    /\ callers["c1"].model_type = LLAMA
    /\ callers["c1"].outcome = "raised"
    /\ Len(ProviderCalls(callers["c1"].log)) = max_retries

\* the content is one a successful provider call of some caller returned
ProviderReturned(content) ==
    \E c \in CallerIds : \E i \in DOMAIN callers[c].log :
        /\ callers[c].log[i].kind = "call"
        /\ callers[c].log[i].ok
        /\ callers[c].log[i].content = Some(content)

\* the last write the store performed under the key
RECURSIVE LastWrite(_, _, _)
LastWrite(writes, key, n) ==
    IF n = 0 THEN None
    ELSE IF writes[n][1] = key THEN Some(writes[n][2])
    ELSE LastWrite(writes, key, n - 1)

\* C19: for two coroutines in generate_response with the same arguments, in
\* every interleaving a caller that returns receives a content some
\* successful provider call returned, neither fails unless a provider call
\* of its own failed, and the cache entry of each key is the response
\* written last under it.
C19_ConcurrentCallsBenign ==
    /\ \A c \in CallerIds :
          /\ callers[c].outcome = "returned" => ProviderReturned(callers[c].content)
          /\ callers[c].outcome = "raised" =>
                \E i \in DOMAIN callers[c].log :
                    callers[c].log[i].kind = "call" /\ ~ callers[c].log[i].ok
    /\ \A key \in CacheKeys : cache[key] = LastWrite(cache_log, key, Len(cache_log))
    /\ \A n \in DOMAIN cache_log : ProviderReturned(cache_log[n][2])

\* C19 witness: both callers missed the cache, both called the provider and
\* got different answers; the cache holds the one written last
C19_Witness ==
    /\ callers["c1"].message = callers["c2"].message
    /\ callers["c1"].model_type = callers["c2"].model_type
    /\ callers["c1"].outcome = "returned" /\ callers["c2"].outcome = "returned"
    /\ callers["c1"].content # callers["c2"].content
    /\ Len(cache_log) = 2
    /\ cache_log[1][1] = cache_log[2][1]
    /\ cache_log[1][2] = callers["c2"].content
    /\ cache[cache_log[2][1]] = Some(callers["c1"].content)

(***************************************************************************)
(* Properties of PromptFilterService.reload_config (specification          *)
(* SpecReload).                                                            *)
(***************************************************************************)
\* C20 (as claimed): after reload_config returned True the compiled rule
\* table is the one compiled from the newly loaded configuration, and a
\* filter_prompt call evaluates the rules and settings of one single
\* configuration version, the one before or the one after the last reload.
C20_ReloadReplacesWholesale ==
    /\ (rcall.called /\ rcall.result) =>
          compiled_patterns = compile_regex_patterns(filter_config)
    /\ fcall.called =>
          \E c \in { filter_config } \cup (IF rcall.called THEN { rcall.old_config } ELSE {}) :
              fcall.out = filter_prompt(settings, c, compile_regex_patterns(c),
                                        fcall.content, fcall.mod)

\* C24 (as claimed): reload_config returns True only when the configuration
\* file was read and parsed; with a missing or invalid file it returns False
\* and the configuration and the compiled rules stay as they were.
C24_ReloadFailsOnBadFile ==
    [][(rcall' # rcall \/ filter_config' # filter_config
            \/ compiled_patterns' # compiled_patterns) =>
          /\ rcall'.result => config_file.kind = "valid"
          /\ config_file.kind # "valid" =>
                /\ ~ rcall'.result
                /\ filter_config' = filter_config
                /\ compiled_patterns' = compiled_patterns]_vars

(***************************************************************************)
(* Properties of PIIDetector.detect of the AI service (specification       *)
(* SpecDetect).                                                            *)
(***************************************************************************)
\* C22: the list detect returns is sorted by start and holds no two
\* overlapping matches: of two accepted matches the earlier one ends at or
\* before the start of the later one.
C22_DetectSortedDisjoint ==
    dcall.called =>
        \A i, j \in DOMAIN dcall.result :
            i < j => /\ dcall.result[i].start <= dcall.result[j].start
                     /\ dcall.result[i].end <= dcall.result[j].start

\* C22 witness: overlapping candidates, one of which replaced an accepted
\* match, and a result of two matches
C22_Witness ==
    /\ dcall.called
    /\ \E i \in DOMAIN dcall.steps : dcall.steps[i].decision = "replace"
    /\ Len(dcall.result) = 2

\* C29 (as claimed): a candidate whose start equals the end of the last
\* accepted match does not overlap it and is appended, so two matches that
\* merely touch are both in the result of detect.
C29_TouchingMatchesKept ==
    dcall.called =>
        \A i \in DOMAIN dcall.steps :
            dcall.steps[i].current.start = dcall.steps[i].prev.end =>
                /\ dcall.steps[i].decision = "append"
                /\ (Len(dcall.steps) = 1 =>
                       dcall.result = << dcall.steps[i].prev, dcall.steps[i].current >>)

(***************************************************************************)
(* Properties of detect, mask_text and validate_pii_removal together       *)
(* (specification SpecRemoval).                                            *)
(***************************************************************************)
\* C23 (as claimed): for a text that contains an email value, whatever its
\* length, validate_pii_removal accepts the text DataMasker made of it with
\* the default policies from the detector's own matches: no match of
\* confidence above 0.8 remains.
C23_MaskedTextValidates ==
    (vcall.called /\ \E i \in DOMAIN vcall.matches : vcall.matches[i].pii_type = "email")
        => vcall.valid

(***************************************************************************)
(* Properties of DataMasker.mask_text of the AI service (specification     *)
(* SpecMasker).                                                            *)
(***************************************************************************)
\* no two matches of the list share a position of the text
NonOverlapping(matches) ==
    \A i, j \in DOMAIN matches :
        i # j => \/ matches[i].end <= matches[j].start
                 \/ matches[j].end <= matches[i].start

\* the text read from position p on, left to right: where a match starts,
\* its masked value in place of its span; elsewhere the character itself
RECURSIVE SpansReplaced(_, _, _)
SpansReplaced(text, matches, p) ==
    IF p >= Len(text) THEN << >>
    ELSE IF \E i \in DOMAIN matches : matches[i].start = p
    THEN LET m == matches[CHOOSE i \in DOMAIN matches : matches[i].start = p]
         IN mask_value(m.text, m.pii_type, config_for(m.pii_type))
            \o SpansReplaced(text, matches, m.end)
    ELSE << text[p + 1] >> \o SpansReplaced(text, matches, p + 1)

\* C30: for non-overlapping matches given in any order, mask_text returns
\* the text with each match span replaced by its masked value and every
\* character outside the spans unchanged and in its place, also when a
\* masked value is longer or shorter than the span; with no match the text
\* is returned as it is.
C30_MaskTextReplacesSpans ==
    (mcall.called /\ NonOverlapping(mcall.pii_matches)) =>
        /\ mcall.masked = SpansReplaced(mcall.text, mcall.pii_matches, 0)
        /\ mcall.pii_matches = << >> => mcall.masked = mcall.text

\* C30 witness: two matches that do not overlap, given in ascending order,
\* the first a person whose digest is longer than its span, with a
\* character outside both spans
C30_Witness ==
    /\ mcall.called
    /\ Len(mcall.pii_matches) = 2
    /\ NonOverlapping(mcall.pii_matches)
    /\ mcall.pii_matches[1].start < mcall.pii_matches[2].start
    /\ mcall.pii_matches[1].pii_type = "person"
    /\ mcall.pii_matches[2].pii_type = "url"
    /\ mcall.pii_matches[1].end < mcall.pii_matches[2].start
    /\ Len(mcall.masked) > Len(mcall.text)
    /\ mcall.masked = SpansReplaced(mcall.text, mcall.pii_matches, 0)

(***************************************************************************)
(* Properties of DataMasker.mask_text of the backend (specification        *)
(* SpecBackendMasker).  The masks are written with "[", "]" and capitals,  *)
(* the texts with the letters of Alphabet.                                 *)
(***************************************************************************)
\* the characters of the text that lie in no span of the matches, in order
RECURSIVE OutsideSpans(_, _, _)
OutsideSpans(text, spans, p) ==
    IF p >= Len(text) THEN << >>
    ELSE (IF \E sp \in spans : sp.start <= p /\ p < sp.end THEN << >>
          ELSE << text[p + 1] >>)
         \o OutsideSpans(text, spans, p + 1)

\* the characters of the output that are letters of the texts, in order
RECURSIVE LettersOf(_, _)
LettersOf(out, letters) ==
    IF out = << >> THEN << >>
    ELSE (IF out[1] \in letters THEN << out[1] >> ELSE << >>)
         \o LettersOf(Tail(out), letters)

\* C25 (as claimed): mask_text masks every detected span, also with
\* overlapping or nested matches of any priority: no character of the text
\* that lies inside some match span is left in the output.
C25_EverySpanMasked ==
    bcall.called =>
        LettersOf(bcall.masked, Alphabet)
            = OutsideSpans(bcall.text,
                  { [start |-> bcall.matches[i].start, end |-> bcall.matches[i].end]
                    : i \in DOMAIN bcall.matches }, 0)

(***************************************************************************)
(* Properties of PIIHandler.process_text of the AI service (specification  *)
(* SpecHandler).  A mask is one element of the output, so the other        *)
(* elements are characters of the text.                                    *)
(***************************************************************************)
HandlerMasks == { get_mask_for_type(pii_type) : pii_type \in {"email", "ip"} }

\* the elements of the output that are not masks, in order
RECURSIVE WithoutMasks(_)
WithoutMasks(out) ==
    IF out = << >> THEN << >>
    ELSE (IF out[1] \in HandlerMasks THEN << >> ELSE << out[1] >>)
         \o WithoutMasks(Tail(out))

\* C26 (as claimed): the output of process_text holds no character from
\* inside any detected span: it is the text outside the union of the spans
\* plus one mask token per match.
C26_OutputHidesEverySpan ==
    hcall.called =>
        /\ WithoutMasks(hcall.masked)
              = OutsideSpans(hcall.text,
                    { [start |-> hcall.matches[i].span[1], end |-> hcall.matches[i].span[2]]
                      : i \in DOMAIN hcall.matches }, 0)
        /\ Len(hcall.masked) - Len(WithoutMasks(hcall.masked)) = Len(hcall.matches)

(***************************************************************************)
(* Properties of RateLimitMiddleware.dispatch (specification SpecRate).    *)
(***************************************************************************)
\* the earlier requests of the same client that were passed on to the
\* application within the window that ends at request j
AdmittedInWindow(j) ==
    { i \in 1..(j - 1) :
        /\ dispatched[i].client_id = dispatched[j].client_id
        /\ dispatched[i].path \notin SkippedPaths
        /\ dispatched[i].passed_on
        /\ dispatched[i].now > dispatched[j].now - rl_settings.RATE_LIMIT_WINDOW }

\* C28 (as claimed): while Redis answers, a client that already had
\* RATE_LIMIT_CALLS requests passed on within the last RATE_LIMIT_WINDOW
\* seconds gets 429 for its next request, which is not passed on to the
\* application.
C28_LimitRejectsWith429 ==
    (\A i \in DOMAIN dispatched : dispatched[i].redis_ok) =>
        \A j \in DOMAIN dispatched :
            (/\ dispatched[j].path \notin SkippedPaths
             /\ Cardinality(AdmittedInWindow(j)) >= rl_settings.RATE_LIMIT_CALLS) =>
                /\ dispatched[j].status_code = 429
                /\ ~ dispatched[j].passed_on

====
